---- MODULE Spec2Model ----
(***************************************************************************)
(* Client-side controllers of the portfolio page (src/unnamed/part_001,    *)
(* with the older StatSources.handleResize of src/js/script.js).           *)
(*                                                                         *)
(* Every controller is a leaf that owns a slice of the page, so each one   *)
(* gets its own specification over the shared variables:                   *)
(*   SpecFilter   ExperienceFilter and its delayed show/hide callbacks     *)
(*   SpecCards    StatSources (expandable cards) with the debounced resize *)
(*                callback and the AccessibilityEnhancements key listener  *)
(*   SpecCardsLegacy  the same with handleResize of src/js/script.js       *)
(*   SpecModal    ProjectModal: open/close, delayed focus, focus trap      *)
(*   SpecNav      Navigation: throttled 'scrolled' marker and mobile menu  *)
(*   SpecReveal   ScrollAnimations: throttled scroll and debounced resize  *)
(*   SpecStats    StatsCounter with the interval timers of animateCounter  *)
(*                (SpecStatsFair: due callbacks run and time passes)       *)
(*   SpecForm     ContactForm with its submission and message timers       *)
(*                (SpecFormFair: the same with two typed forms, where due  *)
(*                callbacks run and time passes)                           *)
(*   SpecValidate ContactForm submitting every bounded e-mail value        *)
(*   SpecDark     DarkMode next to Navigation, whose document listener     *)
(*                sees the clicks on the dark-mode toggle                  *)
(*   SpecBody     DarkMode and ProjectModal, the two writers of body       *)
(*   SpecBoot     the DOMContentLoaded listener on pages that lack         *)
(*                elements, and the first events after it                  *)
(* The browser is single threaded: every action below is one listener or   *)
(* one timer callback run to completion.                                   *)
(***************************************************************************)
EXTENDS Integers, Sequences, FiniteSets, TLC

VARIABLES
  timers,            \* pending setTimeout callbacks, in registration order
  \* ---- ExperienceFilter
  category,          \* item -> data-category attribute (markup)
  currentFilter,     \* this.currentFilter
  itemHidden,        \* item -> classList.contains('is-hidden')
  itemStyle,         \* item -> [opacity, transform] inline style
  activeButtons,     \* filter buttons carrying 'filter-btn--active'
  \* ---- StatSources / AccessibilityEnhancements
  innerWidth,        \* window.innerWidth
  isExpanded,        \* this.isExpanded (shared "all expanded" flag)
  wasMobile,         \* this.wasMobile (remembered mode)
  detailsExpanded,   \* card -> details.classList.contains('is-expanded')
  ariaExpanded,      \* card -> aria-expanded attribute of the expand control
  customButton,      \* card -> control matches [role="button"]:not(button)
  \* ---- ProjectModal
  currentLanguage,   \* this.currentLanguage
  cardProject,       \* project card -> data-project attribute (markup)
  modalOpen,         \* modal.classList.contains('is-open')
  ariaHidden,        \* modal aria-hidden attribute
  bodyModalOpen,     \* body.classList.contains('modal-open')
  modalContent,      \* what the dialog's content elements display
  scrollTop,         \* modalContainer.scrollTop
  activeElement,     \* document.activeElement
  trapListeners,     \* number of handleTabKey listeners on document
  bodyWriters,       \* components that wrote body.classList since the boot
  \* ---- window
  scrollY,           \* window.scrollY
  innerHeight,       \* window.innerHeight
  inThrottle,        \* throttled listener -> its inThrottle flag
  \* ---- Navigation
  navScrolled,       \* nav.classList.contains('scrolled')
  menuOpen,          \* navMenu.classList.contains('is-open')
  navToggleExpanded, \* aria-expanded attribute of navToggle, "" when absent
  \* ---- ScrollAnimations
  layout,            \* reveal element -> its rectangle in the document
  revealVisible,     \* reveal element -> classList.contains('is-visible')
  \* ---- StatsCounter
  statRect,          \* rectangle of the first counter in the document
  countAttr,         \* counter -> data-count attribute (markup)
  statsAnimated,     \* this.animated
  started,           \* counter -> number of animateCounter calls for it
  counterText,       \* counter -> textContent
  \* ---- ContactForm
  formData,          \* field name -> value of the form control
  messageText,       \* messageDiv.textContent
  messageClass,      \* messageDiv.className, as its list of class names
  messageOpacity,    \* messageDiv.style.opacity, "" when never set
  \* ---- DarkMode
  storedMode,        \* localStorage item 'darkMode', "" when absent
  bodyDark,          \* body.classList.contains('dark-mode')
  systemDark,        \* (prefers-color-scheme: dark) matches
  \* ---- the boot sequence (DOMContentLoaded)
  present,           \* what the page offers of the things the code looks up
  constructed,       \* the components constructed, in order
  smoothScrolling,   \* setupSmoothScrolling() has run
  bodyLoaded,        \* body.classList.contains('loaded')
  threw,             \* component whose code threw in the last task, or ""
  \* ---- the last dispatched keydown, click or submit event
  defaultPrevented   \* its defaultPrevented flag

filterVars == <<category, currentFilter, itemHidden, itemStyle, activeButtons>>
cardVars == <<innerWidth, isExpanded, wasMobile, detailsExpanded, ariaExpanded,
              customButton>>
modalVars == <<currentLanguage, cardProject, modalOpen, ariaHidden,
               bodyModalOpen, modalContent, scrollTop, activeElement,
               trapListeners, bodyWriters>>
windowVars == <<scrollY, innerHeight, inThrottle>>
navVars == <<navScrolled, menuOpen, navToggleExpanded>>
revealVars == <<layout, revealVisible>>
statsVars == <<statRect, countAttr, statsAnimated, started, counterText>>
formVars == <<formData, messageText, messageClass, messageOpacity>>
darkVars == <<storedMode, bodyDark, systemDark>>
bootVars == <<present, constructed, smoothScrolling, bodyLoaded,
              threw>>
extraVars == <<formVars, darkVars, bootVars>>
pageVars == <<windowVars, navVars, revealVars, statsVars, extraVars>>
vars == <<timers, defaultPrevented, filterVars, cardVars, modalVars, pageVars>>

(***************************************************************************)
(* Timers.  A pending callback is [kind, arg, left]: left is the time in   *)
(* milliseconds until it is due.  Time passes only up to the next due      *)
(* callback; callbacks due at the same instant run in registration order.  *)
(***************************************************************************)
MaxBursts == 2       \* bound on the events whose callbacks are pending at once

ShowDelay == 10
HideDelay == 300

RECURSIVE MinLeft(_)
MinLeft(ts) ==
  IF Len(ts) = 1 THEN ts[1].left
  ELSE LET m == MinLeft(Tail(ts)) IN IF ts[1].left < m THEN ts[1].left ELSE m

\* index of the callback the event loop runs next, 0 when none is due
NextDue(ts) ==
  IF \E k \in 1..Len(ts) : ts[k].left = 0
  THEN CHOOSE k \in 1..Len(ts) :
         ts[k].left = 0 /\ \A j \in 1..(k - 1) : ts[j].left # 0
  ELSE 0

RemoveAt(ts, k) == SubSeq(ts, 1, k - 1) \o SubSeq(ts, k + 1, Len(ts))

\* the amounts of time that may pass before the next thing happens
PartialSteps == {HideDelay - ShowDelay}

\* d milliseconds pass
Elapse(d) ==
  /\ timers # <<>>
  /\ d > 0
  /\ d <= MinLeft(timers)
  /\ timers' = [k \in 1..Len(timers) |->
                  [timers[k] EXCEPT !.left = timers[k].left - d]]
  /\ UNCHANGED <<pageVars, defaultPrevented, filterVars, cardVars, modalVars>>

\* time passes until the next callback is due
ElapseToDue == timers # <<>> /\ Elapse(MinLeft(timers))

\* time passes, but less than the next callback needs
ElapsePart ==
  /\ timers # <<>>
  /\ \E d \in {s \in PartialSteps : s < MinLeft(timers)} : Elapse(d)

(***************************************************************************)
(* ExperienceFilter                                                        *)
(***************************************************************************)
NumItems == 2        \* timeline entries on the page
Items == 1..NumItems

\* attribute values are strings, modelled as sequences of characters
AllFilter == <<"a", "l", "l">>
Filters == {AllFilter, <<"w">>, <<"e">>}

\* data-category attributes the markup may carry
CategoryAttrs ==
  { [present |-> FALSE, text |-> <<>>],
    [present |-> TRUE, text |-> <<>>],
    [present |-> TRUE, text |-> <<"w">>],
    [present |-> TRUE, text |-> <<"e">>],
    [present |-> TRUE, text |-> <<"w", " ", "e">>],
    [present |-> TRUE, text |-> <<"w", "e">>] }

\* String.prototype.split(' ')
RECURSIVE SplitFrom(_, _, _)
SplitFrom(s, i, cur) ==
  IF i > Len(s) THEN <<cur>>
  ELSE IF s[i] = " " THEN <<cur>> \o SplitFrom(s, i + 1, <<>>)
  ELSE SplitFrom(s, i + 1, Append(cur, s[i]))

Split(s) == SplitFrom(s, 1, <<>>)

\* item.dataset.category?.split(' ') || []
Categories(item) ==
  IF category[item].present THEN Split(category[item].text) ELSE <<>>

\* Array.prototype.includes
Includes(arr, x) == \E k \in 1..Len(arr) : arr[k] = x

ShownStyle == [opacity |-> "1", transform |-> "translateY(0)"]
FadedStyle == [opacity |-> "0", transform |-> "translateY(20px)"]
UnsetStyle == [opacity |-> "", transform |-> ""]

\* the branch applyFilter takes for one item
Matches(filter, item) ==
  IF filter = AllFilter THEN TRUE ELSE Includes(Categories(item), filter)

\* the callbacks one applyFilter call registers, in forEach order
FilterTimers(filter) ==
  [i \in Items |->
     IF Matches(filter, i)
     THEN [kind |-> "show", arg |-> i, left |-> ShowDelay]
     ELSE [kind |-> "hide", arg |-> i, left |-> HideDelay]]

applyFilter(filter) ==
  /\ currentFilter' = filter
  /\ itemHidden' = [i \in Items |->
                      IF Matches(filter, i) THEN FALSE ELSE itemHidden[i]]
  /\ itemStyle' = [i \in Items |->
                     IF Matches(filter, i) THEN itemStyle[i] ELSE FadedStyle]
  /\ timers' = timers \o FilterTimers(filter)

setActiveButton(button) == activeButtons' = {button}

\* click listener of a filter button
FilterClick(filter) ==
  /\ Len(timers) + NumItems <= MaxBursts * NumItems
  /\ applyFilter(filter)
  /\ setActiveButton(filter)
  /\ UNCHANGED <<pageVars, category, defaultPrevented, cardVars, modalVars>>

\* setTimeout callback of the visible branch
ShowCallback ==
  /\ NextDue(timers) # 0
  /\ LET k == NextDue(timers) IN
       /\ timers[k].kind = "show"
       /\ itemStyle' = [itemStyle EXCEPT ![timers[k].arg] = ShownStyle]
       /\ timers' = RemoveAt(timers, k)
  /\ UNCHANGED <<pageVars, category, currentFilter, itemHidden, activeButtons,
                 defaultPrevented, cardVars, modalVars>>

\* setTimeout callback of the hidden branch
HideCallback ==
  /\ NextDue(timers) # 0
  /\ LET k == NextDue(timers) IN
       /\ timers[k].kind = "hide"
       /\ itemHidden' = [itemHidden EXCEPT ![timers[k].arg] = TRUE]
       /\ timers' = RemoveAt(timers, k)
  /\ UNCHANGED <<pageVars, category, currentFilter, itemStyle, activeButtons,
                 defaultPrevented, cardVars, modalVars>>

FilterInit ==
  /\ category \in [Items -> CategoryAttrs]
  /\ currentFilter = AllFilter
  /\ itemHidden = [i \in Items |-> FALSE]
  /\ itemStyle = [i \in Items |-> UnsetStyle]
  /\ activeButtons = {}

FilterIdle ==
  /\ category = [i \in Items |-> [present |-> FALSE, text |-> <<>>]]
  /\ currentFilter = AllFilter
  /\ itemHidden = [i \in Items |-> FALSE]
  /\ itemStyle = [i \in Items |-> UnsetStyle]
  /\ activeButtons = {}

(***************************************************************************)
(* StatSources (expandable cards) and AccessibilityEnhancements            *)
(***************************************************************************)
NumCards == 2        \* expandable stat cards on the page
Cards == 1..NumCards

mobileBreakpoint == 768
ResizeWait == 200

WidthSpan == 1       \* viewport widths within this distance of the breakpoint
Widths == (mobileBreakpoint - WidthSpan)..(mobileBreakpoint + WidthSpan)

isMobile(w) == w <= mobileBreakpoint

\* setAttribute stores the string form of a boolean
AttrOf(b) == IF b THEN "true" ELSE "false"

\* the part of the state the expand/collapse methods work on
CardState == [isExpanded |-> isExpanded, wasMobile |-> wasMobile,
              details |-> detailsExpanded, aria |-> ariaExpanded]

\* a toggle that loses its index and writes every card
toggleSingleExpandableEveryCard(s, index) ==
  [s EXCEPT !.aria = [c \in Cards |-> AttrOf(~s.details[index])],
            !.details = [c \in Cards |-> ~s.details[index]]]

toggleSingleExpandable(s, index) ==
  [s EXCEPT !.aria[index] = AttrOf(~s.details[index]),
            !.details[index] = ~s.details[index]]

\* a collective toggle that forgets the aria-expanded attributes
toggleAllExpandablesNoAria(s) ==
  [s EXCEPT !.isExpanded = ~s.isExpanded,
            !.details = [c \in Cards |-> ~s.isExpanded]]

toggleAllExpandables(s) ==
  [s EXCEPT !.isExpanded = ~s.isExpanded,
            !.aria = [c \in Cards |-> AttrOf(~s.isExpanded)],
            !.details = [c \in Cards |-> ~s.isExpanded]]

\* a collapse that leaves the aria-expanded attributes as they are
closeAllExpandablesKeepAria(s) ==
  [s EXCEPT !.details = [c \in Cards |-> FALSE]]

closeAllExpandables(s) ==
  [s EXCEPT !.aria = [c \in Cards |-> AttrOf(FALSE)],
            !.details = [c \in Cards |-> FALSE]]

\* a handler that resets on a crossing and forgets to remember the new mode
handleResizeForgetful(s, w) ==
  IF s.wasMobile # isMobile(w)
  THEN closeAllExpandables([s EXCEPT !.isExpanded = FALSE])
  ELSE s

\* src/unnamed/part_001: reset only when the mode differs from the remembered
handleResize(s, w) ==
  IF s.wasMobile # isMobile(w)
  THEN [closeAllExpandables([s EXCEPT !.isExpanded = FALSE])
          EXCEPT !.wasMobile = isMobile(w)]
  ELSE s

\* src/js/script.js: no remembered mode, every resize collapses the cards
handleResizeLegacy(s, w) ==
  IF isMobile(w)
  THEN closeAllExpandables(s)
  ELSE closeAllExpandables([s EXCEPT !.isExpanded = FALSE])

\* click listener of expand control index
expandClickListener(s, index, w) ==
  IF isMobile(w) THEN toggleSingleExpandable(s, index)
  ELSE toggleAllExpandables(s)

KeydownKeys == {"Enter", " ", "Tab"}
ActivationKeys == {"Enter", " "}

\* keydown listener StatSources registers on expand control index
expandKeydownListener(s, index, key, w) ==
  IF key \in ActivationKeys
  THEN (IF isMobile(w) THEN toggleSingleExpandable(s, index)
        ELSE toggleAllExpandables(s))
  ELSE s

\* keydown listener AccessibilityEnhancements registers on every element
\* matching [role="button"]:not(button); element.click() runs the click
\* listener synchronously
customButtonKeydownListener(s, index, key, w) ==
  IF customButton[index] /\ key \in ActivationKeys
  THEN expandClickListener(s, index, w)
  ELSE s

\* all keydown listeners of the control, in registration order (StatSources
\* is constructed before AccessibilityEnhancements)
expandKeydown(s, index, key, w) ==
  customButtonKeydownListener(expandKeydownListener(s, index, key, w),
                              index, key, w)

SetCardState(s) ==
  /\ isExpanded' = s.isExpanded
  /\ wasMobile' = s.wasMobile
  /\ detailsExpanded' = s.details
  /\ ariaExpanded' = s.aria

\* a pointer activation of expand control index
ExpandClick(index) ==
  /\ SetCardState(expandClickListener(CardState, index, innerWidth))
  /\ UNCHANGED <<pageVars, timers, defaultPrevented, innerWidth, customButton,
                 filterVars, modalVars>>

\* a keydown on expand control index
ExpandKeydown(index, key) ==
  /\ SetCardState(expandKeydown(CardState, index, key, innerWidth))
  /\ defaultPrevented' = (key \in ActivationKeys)
  /\ UNCHANGED <<pageVars,
                 timers, innerWidth, customButton, filterVars, modalVars>>

\* a debounce that leaves the pending callback in place
DebouncedNoClear(ts, args) ==
  ts \o <<[kind |-> "resize", arg |-> args, left |-> ResizeWait]>>

\* debounce(): the pending callback is dropped and a new one registered,
\* which keeps the arguments of this call
Debounced(ts, args) ==
  SelectSeq(ts, LAMBDA t : t.kind # "resize")
    \o <<[kind |-> "resize", arg |-> args, left |-> ResizeWait]>>

\* the window is resized to width w
Resize(w) ==
  /\ innerWidth' = w
  /\ timers' = Debounced(timers, w)
  /\ UNCHANGED <<pageVars,
                 defaultPrevented, isExpanded, wasMobile, detailsExpanded,
                 ariaExpanded, customButton, filterVars, modalVars>>

ResizeDue == NextDue(timers) # 0 /\ timers[NextDue(timers)].kind = "resize"

\* the debounced resize callback (part_001)
ResizeCallback ==
  /\ ResizeDue
  /\ timers' = RemoveAt(timers, NextDue(timers))
  /\ SetCardState(handleResize(CardState, innerWidth))
  /\ UNCHANGED <<pageVars, defaultPrevented, innerWidth, customButton,
                 filterVars, modalVars>>

\* the debounced resize callback (script.js)
ResizeCallbackLegacy ==
  /\ ResizeDue
  /\ timers' = RemoveAt(timers, NextDue(timers))
  /\ SetCardState(handleResizeLegacy(CardState, innerWidth))
  /\ UNCHANGED <<pageVars, defaultPrevented, innerWidth, customButton,
                 filterVars, modalVars>>

\* constructor: all cards collapsed, the mode of the current width remembered
CardsInit ==
  /\ innerWidth \in Widths
  /\ isExpanded = FALSE
  /\ wasMobile = isMobile(innerWidth)
  /\ detailsExpanded = [c \in Cards |-> FALSE]
  /\ ariaExpanded = [c \in Cards |-> "false"]
  /\ customButton \in [Cards -> BOOLEAN]

CardsIdle ==
  /\ innerWidth = mobileBreakpoint
  /\ isExpanded = FALSE
  /\ wasMobile = TRUE
  /\ detailsExpanded = [c \in Cards |-> FALSE]
  /\ ariaExpanded = [c \in Cards |-> "false"]
  /\ customButton = [c \in Cards |-> FALSE]

(***************************************************************************)
(* ProjectModal                                                            *)
(***************************************************************************)
LanguageSpaceEn ==
  [logo |-> "assets/ls_logo.png",
   title |-> "Language Space",
   subtitle |-> "Discord Community for Language Learners",
   description |-> "Language Space is a Discord community dedicated to bringing people together from around the world to learn languages, share cultures, and build meaningful connections. As one of the founding moderators and community builders, I help create an inclusive environment where members can practice languages through voice channels, text conversations, and organized events. Our community focuses on practical language learning combined with genuine cultural exchange, making the learning process both effective and enjoyable.",
   highlights |-> <<"Co-found and manage a community of 300+ active language learners.",
      "Organize voice chat sessions, language exchanges, and cultural events (also cooking sessions!)",
      "Collaborate with international moderators">>,
   stats |-> <<[value |-> "300+", label |-> "Active Members"],
      [value |-> "50+", label |-> "Languages"]>>,
   ctaText |-> "Join the Community",
   ctaUrl |-> "https://discord.com/invite/DfQESyV26V"]

LanguageSpaceIt ==
  [logo |-> "assets/ls_logo.png",
   title |-> "Language Space",
   subtitle |-> "Community Discord per Studenti di Lingue",
   description |-> "Language Space è una vivace community Discord dedicata a riunire persone da tutto il mondo per imparare lingue, condividere culture e costruire connessioni significative. Come uno dei moderatori fondatori e costruttori della community, aiuto a creare un ambiente inclusivo dove i membri possono praticare le lingue attraverso canali vocali, conversazioni testuali ed eventi organizzati. La nostra community si concentra sull'apprendimento pratico delle lingue combinato con un autentico scambio culturale, rendendo il processo di apprendimento efficace e piacevole.",
   highlights |-> <<"Co-fondatore e gestore di una community di oltre 300 studenti di lingue attivi",
      "Organizzazione di sessioni di scambi linguistici ed eventi culturali (anche sessioni di cucina!)",
      "Collaborazione con moderatori internazionali">>,
   stats |-> <<[value |-> "300+", label |-> "Membri Attivi"],
      [value |-> "50+", label |-> "Lingue"]>>,
   ctaText |-> "Unisciti alla Community",
   ctaUrl |-> "https://discord.com/invite/DfQESyV26V"]

EutimiamoEn ==
  [logo |-> "assets/eutimiamo_logo.png",
   title |-> "Eutimiamo",
   subtitle |-> "Psychology Education & Documentary Content",
   description |-> "Eutimiamo started as a passion project to make psychology accessible and engaging for Italian-speaking audiences. What began as an Instagram page sharing psychology facts evolved into a full-fledged YouTube channel producing high-quality documentary-style videos. I handle the complete production pipeline: from researching complex psychological concepts and writing scripts, to editing compelling videos in Premiere Pro and designing eye-catching thumbnails in Photoshop. The channel focuses on deep dives into psychological phenomena, mental health topics, and fascinating aspects of human behavior, presented in an educational yet entertaining format.",
   highlights |-> <<"Built an audience of 26K+ YouTube subscribers and 28K+ Instagram followers",
      "Complete production workflow: research, scripting, editing in Premiere Pro, and thumbnail design in Photoshop">>,
   stats |-> <<[value |-> "26K+", label |-> "YouTube Subs"],
      [value |-> "28K+", label |-> "Instagram Followers"],
      [value |-> "34.9M+", label |-> "Cross-platform Views"],
      [value |-> "144+", label |-> "Videos Published"]>>,
   ctaText |-> "View the Channel",
   ctaUrl |-> "https://www.youtube.com/@eutimiamo"]

EutimiamoIt ==
  [logo |-> "assets/eutimiamo_logo.png",
   title |-> "Eutimiamo",
   subtitle |-> "Educazione Psicologica e Contenuti Documentari",
   description |-> "Eutimiamo è nato come progetto personale per rendere la psicologia accessibile e coinvolgente per il pubblico italiano. Ciò che è iniziato come una pagina Instagram che condivideva curiosità di psicologia si è evoluto in un canale YouTube a tutti gli effetti che produce video documentari di alta qualità. Gestisco l'intera pipeline di produzione: dalla ricerca di concetti psicologici complessi e scrittura degli script, al montaggio di video avvincenti in Premiere Pro e alla progettazione di miniature accattivanti in Photoshop. Il canale si concentra su approfondimenti di fenomeni psicologici, argomenti di salute mentale e aspetti affascinanti del comportamento umano, presentati in un formato educativo ma divertente.",
   highlights |-> <<"Costruito un pubblico di oltre 26K iscritti YouTube e oltre 28K follower Instagram",
      "Flusso di produzione completo: ricerca, sceneggiatura, montaggio in Premiere Pro e progettazione miniature in Photoshop">>,
   stats |-> <<[value |-> "26K+", label |-> "Iscritti YouTube"],
      [value |-> "28K+", label |-> "Follower Instagram"],
      [value |-> "34.9M+", label |-> "Visualizzazioni Multi-piattaforma"],
      [value |-> "144+", label |-> "Video Pubblicati"]>>,
   ctaText |-> "Vedi il Canale",
   ctaUrl |-> "https://www.youtube.com/@eutimiamo"]

projectData ==
  ("language-space" :> ("en" :> LanguageSpaceEn @@ "it" :> LanguageSpaceIt))
    @@ ("eutimiamo" :> ("en" :> EutimiamoEn @@ "it" :> EutimiamoIt))

NumProjectCards == 2   \* clickable timeline cards on the page
ProjectCards == 1..NumProjectCards

MaxTraps == 2          \* bound on the registered handleTabKey listeners

\* the dialog's content at its top, and scrolled down
ScrollOffsets == {0, 1}

FocusDelay == 100

\* names of Object.prototype, which projectData[projectId] also finds
ObjectPrototypeKeys == {"constructor", "toString", "valueOf"}

\* data-project attributes the markup may carry
PageProjectIds == {"language-space", "eutimiamo", "no-such-project",
                   "constructor"}

\* lang attributes of the document element
PageLangs == {"", "en", "it", "fr"}

\* document.documentElement.lang || 'en'
LanguageOf(lang) == IF lang = "" THEN "en" ELSE lang

\* what this.projectData[projectId] evaluates to
LookupKind(projectId) ==
  IF projectId \in DOMAIN projectData THEN "own"
  ELSE IF projectId \in ObjectPrototypeKeys THEN "inherited"
  ELSE "undefined"

\* a lookup that ignores the page language
VariantAlwaysEn(projectId, lang) == projectData[projectId]["en"]

\* projectLangData[this.currentLanguage] || projectLangData['en']
Variant(projectId, lang) ==
  IF lang \in DOMAIN projectData[projectId]
  THEN projectData[projectId][lang]
  ELSE projectData[projectId]["en"]

\* elements that can hold keyboard focus
Body == [kind |-> "body", n |-> 0]
CardEl(c) == [kind |-> "card", n |-> c]
CloseButton == [kind |-> "close", n |-> 0]
CTATop == [kind |-> "ctaTop", n |-> 0]
CTA == [kind |-> "cta", n |-> 0]

IsCard(el) == el.kind = "card"

\* modal.querySelectorAll('button, [href], ...'), in document order
focusableElements == <<CloseButton, CTATop, CTA>>
firstElement == focusableElements[1]
lastElement == focusableElements[Len(focusableElements)]

\* sequential focus navigation order of the page
TabOrder == [c \in ProjectCards |-> CardEl(c)] \o focusableElements

IndexIn(seq, el) ==
  IF \E k \in 1..Len(seq) : seq[k] = el
  THEN CHOOSE k \in 1..Len(seq) : seq[k] = el
  ELSE 0

\* the browser's default Tab / Shift+Tab traversal
NextTabStop(el, shift) ==
  LET k == IndexIn(TabOrder, el) IN
    IF shift
    THEN (IF k = 0 THEN TabOrder[Len(TabOrder)]
          ELSE IF k = 1 THEN Body ELSE TabOrder[k - 1])
    ELSE (IF k = Len(TabOrder) THEN Body ELSE TabOrder[k + 1])

\* what the content elements show before the first open
EmptyContent ==
  [logoSrc |-> "", logoAlt |-> <<>>, title |-> "", subtitle |-> "",
   description |-> "", highlights |-> <<>>, stats |-> <<>>,
   ctaText |-> "", ctaHref |-> "", ctaTextTop |-> "", ctaHrefTop |-> ""]

\* a population that leaves the top call-to-action element untouched
DisplayBottomOnly(project) ==
  [logoSrc |-> project.logo, logoAlt |-> <<project.title, " Logo">>,
   title |-> project.title, subtitle |-> project.subtitle,
   description |-> project.description,
   highlights |-> project.highlights, stats |-> project.stats,
   ctaText |-> project.ctaText, ctaHref |-> project.ctaUrl,
   ctaTextTop |-> "", ctaHrefTop |-> ""]

\* what the content elements show after openModal populated them
Display(project) ==
  [logoSrc |-> project.logo, logoAlt |-> <<project.title, " Logo">>,
   title |-> project.title, subtitle |-> project.subtitle,
   description |-> project.description,
   highlights |-> project.highlights, stats |-> project.stats,
   ctaText |-> project.ctaText, ctaHref |-> project.ctaUrl,
   ctaTextTop |-> project.ctaText, ctaHrefTop |-> project.ctaUrl]

\* the part of the state the dialog's methods and listeners work on
ModalState ==
  [open |-> modalOpen, ariaHidden |-> ariaHidden, body |-> bodyModalOpen,
   content |-> modalContent, scrollTop |-> scrollTop, focus |-> activeElement,
   traps |-> trapListeners, timers |-> timers, prevented |-> FALSE,
   writers |-> bodyWriters]

\* trapFocus(): one more handleTabKey listener on document
trapFocus(s) == [s EXCEPT !.traps = @ + 1]

\* the dialog is shown: scroll lock, open marker, delayed focus, focus trap
showModal(s) ==
  trapFocus([s EXCEPT !.body = TRUE,
                      !.writers = @ \cup {"ProjectModal"},
                      !.open = TRUE,
                      !.ariaHidden = "false",
                      !.scrollTop = 0,
                      !.timers = Append(@, [kind |-> "focus", arg |-> 0,
                                            left |-> FocusDelay])])

\* an open without the early return: an unknown project shows the dialog
openModalUnguarded(s, projectId) ==
  IF LookupKind(projectId) = "own"
  THEN showModal([s EXCEPT !.content =
                     Display(Variant(projectId, currentLanguage))])
  ELSE showModal(s)

openModal(s, projectId) ==
  IF LookupKind(projectId) = "undefined" THEN s
  ELSE IF LookupKind(projectId) = "inherited"
  THEN s    \* project is undefined: project.logo throws before any write
  ELSE showModal([s EXCEPT !.content =
                     Display(Variant(projectId, currentLanguage))])

\* a close that leaves the page scroll locked
closeModalKeepLock(s) ==
  [s EXCEPT !.open = FALSE, !.ariaHidden = "true"]

closeModal(s) ==
  LET openCard == IF IsCard(s.focus) THEN s.focus ELSE Body IN
    [s EXCEPT !.open = FALSE,
              !.ariaHidden = "true",
              !.body = FALSE,
              !.writers = @ \cup {"ProjectModal"},
              !.focus = IF openCard # Body THEN openCard ELSE s.focus]

\* keydown listener of a project card
cardKeydownListener(s, key) ==
  IF IsCard(s.focus) /\ key \in ActivationKeys
  THEN openModal([s EXCEPT !.prevented = TRUE], cardProject[s.focus.n])
  ELSE s

\* an Escape listener that never closes the dialog
escapeListenerDeaf(s, key) == s

\* keydown listener of document registered by init
escapeListener(s, key) ==
  IF key = "Escape" /\ s.open THEN closeModal(s) ELSE s

\* click listener of every [data-modal-close] element
closeButtonClickListener(s) == closeModal(s)

\* click listener of the dialog root
modalClickListener(s, target) ==
  IF target \in {"modal", "overlay"} THEN closeModal(s) ELSE s

\* where a pointer click can land in the open dialog; the close control and
\* the content lie inside the content container
ClickTargets == {"modal", "overlay", "close", "content"}
InContainer(target) == target \in {"close", "content"}

\* dispatch of one click: target listener, then the bubbling path; the
\* container's listener stops the propagation to the dialog root
dispatchClick(s, target) ==
  LET s1 == IF target = "close" THEN closeButtonClickListener(s) ELSE s
  IN IF InContainer(target) THEN s1 ELSE modalClickListener(s1, target)

\* a trap that moves focus but lets the default traversal run as well
handleTabKeyNoPrevent(s, key, shift) ==
  IF ~s.open THEN [s EXCEPT !.traps = @ - 1]
  ELSE IF key = "Tab"
  THEN (IF shift
        THEN (IF s.focus = firstElement
              THEN [s EXCEPT !.focus = lastElement] ELSE s)
        ELSE (IF s.focus = lastElement
              THEN [s EXCEPT !.focus = firstElement] ELSE s))
  ELSE s

\* one handleTabKey listener
handleTabKey(s, key, shift) ==
  IF ~s.open THEN [s EXCEPT !.traps = @ - 1]
  ELSE IF key = "Tab"
  THEN (IF shift
        THEN (IF s.focus = firstElement
              THEN [s EXCEPT !.prevented = TRUE, !.focus = lastElement]
              ELSE s)
        ELSE (IF s.focus = lastElement
              THEN [s EXCEPT !.prevented = TRUE, !.focus = firstElement]
              ELSE s))
  ELSE s

\* a dispatch that reaches only the first registered handleTabKey listener
RunTrapListenersFirstOnly(s, n, key, shift) ==
  IF n = 0 THEN s ELSE handleTabKey(s, key, shift)

\* the n handleTabKey listeners of document, in registration order
RECURSIVE RunTrapListeners(_, _, _, _)
RunTrapListeners(s, n, key, shift) ==
  IF n = 0 THEN s
  ELSE RunTrapListeners(handleTabKey(s, key, shift), n - 1, key, shift)

\* the browser's default action of a keydown that no listener prevented
DefaultAction(s, key, shift) ==
  IF s.prevented THEN s
  ELSE IF key = "Tab" THEN [s EXCEPT !.focus = NextTabStop(s.focus, shift)]
  ELSE IF key \in ActivationKeys /\ s.focus = CloseButton /\ s.open
  THEN closeModal(s)     \* a focused button is clicked
  ELSE s

\* dispatch of one keydown: target listeners, document listeners, default
dispatchKeydown(s, key, shift) ==
  LET s1 == cardKeydownListener(s, key)
      s2 == escapeListener(s1, key)
      s3 == RunTrapListeners(s2, s2.traps, key, shift)
  IN DefaultAction(s3, key, shift)

SetModalState(s) ==
  /\ modalOpen' = s.open
  /\ ariaHidden' = s.ariaHidden
  /\ bodyModalOpen' = s.body
  /\ modalContent' = s.content
  /\ scrollTop' = s.scrollTop
  /\ activeElement' = s.focus
  /\ trapListeners' = s.traps
  /\ bodyWriters' = s.writers
  /\ timers' = s.timers

\* true when opening projectId stays within the bounds of the model
OpenFits(projectId) ==
  LookupKind(projectId) = "own" =>
    trapListeners < MaxTraps /\ Len(timers) < MaxBursts

KeyInputs == {[key |-> "Tab", shift |-> FALSE], [key |-> "Tab", shift |-> TRUE],
              [key |-> "Enter", shift |-> FALSE], [key |-> " ", shift |-> FALSE],
              [key |-> "Escape", shift |-> FALSE]}

\* a keydown with the focused element as target
Keydown(k) ==
  /\ IsCard(activeElement) /\ k.key \in ActivationKeys
       => OpenFits(cardProject[activeElement.n])
  /\ LET s == dispatchKeydown(ModalState, k.key, k.shift) IN
       /\ SetModalState(s)
       /\ defaultPrevented' = s.prevented
  /\ UNCHANGED <<pageVars, currentLanguage, cardProject, filterVars, cardVars>>

\* a pointer click on project card c; onLink: the target is inside a link
CardClick(c, onLink) ==
  /\ ~onLink => OpenFits(cardProject[c])
  /\ IF onLink
     THEN SetModalState(ModalState)
     ELSE SetModalState(openModal([ModalState EXCEPT !.focus = CardEl(c)],
                                  cardProject[c]))
  /\ UNCHANGED <<pageVars, defaultPrevented, currentLanguage, cardProject,
                 filterVars, cardVars>>

\* a pointer click on the close control
CloseClick ==
  /\ modalOpen
  /\ SetModalState(dispatchClick([ModalState EXCEPT !.focus = CloseButton],
                                 "close"))
  /\ UNCHANGED <<pageVars, defaultPrevented, currentLanguage, cardProject,
                 filterVars, cardVars>>

\* a pointer click on the dialog root or its overlay
BackdropClick ==
  /\ modalOpen
  /\ \E target \in {"modal", "overlay"} :
       SetModalState(dispatchClick([ModalState EXCEPT !.focus = Body], target))
  /\ UNCHANGED <<pageVars, defaultPrevented, currentLanguage, cardProject,
                 filterVars, cardVars>>

\* a pointer click inside the content container: propagation is stopped
ContainerClick ==
  /\ modalOpen
  /\ SetModalState(dispatchClick([ModalState EXCEPT !.focus = Body],
                                 "content"))
  /\ UNCHANGED <<pageVars, defaultPrevented, currentLanguage, cardProject,
                 filterVars, cardVars>>

\* the user scrolls the dialog's content
ScrollContainer(y) ==
  /\ modalOpen
  /\ scrollTop' = y
  /\ UNCHANGED <<pageVars,
                 timers, defaultPrevented, currentLanguage, cardProject,
                 modalOpen, ariaHidden, bodyModalOpen, modalContent,
                 activeElement, trapListeners, bodyWriters, filterVars,
                 cardVars>>

\* the delayed callback of openModal
FocusCallback ==
  /\ NextDue(timers) # 0
  /\ timers[NextDue(timers)].kind = "focus"
  /\ timers' = RemoveAt(timers, NextDue(timers))
  /\ activeElement' = CloseButton
  /\ UNCHANGED <<pageVars,
                 defaultPrevented, currentLanguage, cardProject, modalOpen,
                 ariaHidden, bodyModalOpen, modalContent, scrollTop,
                 trapListeners, bodyWriters, filterVars, cardVars>>

ModalInit ==
  /\ \E lang \in PageLangs : currentLanguage = LanguageOf(lang)
  /\ cardProject \in [ProjectCards -> PageProjectIds]
  /\ modalOpen = FALSE
  /\ ariaHidden = "true"
  /\ bodyModalOpen = FALSE
  /\ modalContent = EmptyContent
  /\ scrollTop = 0
  /\ activeElement = Body
  /\ trapListeners = 0
  /\ bodyWriters = {}

ModalIdle ==
  /\ currentLanguage = "en"
  /\ cardProject = [c \in ProjectCards |-> "language-space"]
  /\ modalOpen = FALSE
  /\ ariaHidden = "true"
  /\ bodyModalOpen = FALSE
  /\ modalContent = EmptyContent
  /\ scrollTop = 0
  /\ activeElement = Body
  /\ trapListeners = 0
  /\ bodyWriters = {}

(***************************************************************************)
(* The window's scroll position and the throttle wrapper.  Every throttled *)
(* listener has an inThrottle flag of its own and a timer that clears it.  *)
(***************************************************************************)
ThrottleLimit == 100

\* the throttled scroll listeners that are modelled
Throttled == {"nav", "reveal", "stats"}

\* a throttle that starts the timer and never sets the flag
ThrottleNoFlag(listener) ==
  /\ inThrottle' = inThrottle
  /\ timers' = Append(timers, [kind |-> "throttle", arg |-> listener,
                               left |-> ThrottleLimit])

\* throttle(func, limit) after func ran: the flag is set and a timer started
Throttle(listener) ==
  /\ inThrottle' = [inThrottle EXCEPT ![listener] = TRUE]
  /\ timers' = Append(timers, [kind |-> "throttle", arg |-> listener,
                               left |-> ThrottleLimit])

\* the timer callback of throttle: () => inThrottle = false
ThrottleCallback(listener) ==
  /\ NextDue(timers) # 0
  /\ timers[NextDue(timers)].kind = "throttle"
  /\ timers[NextDue(timers)].arg = listener
  /\ timers' = RemoveAt(timers, NextDue(timers))
  /\ inThrottle' = [inThrottle EXCEPT ![listener] = FALSE]
  /\ UNCHANGED <<scrollY, innerHeight, navVars, revealVars, statsVars,
                 defaultPrevented, filterVars, cardVars, modalVars, extraVars>>

\* heights the window may have
ViewportHeights == {100, 300}

\* the page is loaded at its top in a window of the smaller height
WindowInit ==
  /\ scrollY = 0
  /\ innerHeight = 100
  /\ inThrottle = [l \in Throttled |-> FALSE]

(***************************************************************************)
(* Navigation                                                              *)
(***************************************************************************)
ScrolledOffset == 50
NavSpan == 1         \* scroll offsets this far around ScrolledOffset
NavScrollPositions ==
  {0} \cup ((ScrolledOffset - NavSpan)..(ScrolledOffset + NavSpan))

\* the scroll listener of Navigation behind its throttle
NavScroll(y) ==
  /\ y # scrollY
  /\ scrollY' = y
  /\ IF ~inThrottle["nav"]
     THEN /\ navScrolled' = (y > ScrolledOffset)
          /\ Throttle("nav")
     ELSE UNCHANGED <<navScrolled, inThrottle, timers>>
  /\ UNCHANGED <<innerHeight, menuOpen, navToggleExpanded, revealVars,
                 statsVars, defaultPrevented, filterVars, cardVars, modalVars, extraVars>>

\* the part of the state the menu's methods and listeners work on
NavState == [open |-> menuOpen, expanded |-> navToggleExpanded]

\* a toggle that flips the marker and leaves the attribute alone
toggleMenuNoAria(s) == [s EXCEPT !.open = ~s.open]

toggleMenu(s) ==
  LET isOpen == ~s.open IN [open |-> isOpen, expanded |-> AttrOf(isOpen)]

closeMenu(s) == [open |-> FALSE, expanded |-> "false"]

\* hasTarget: document.querySelector(targetId) found a section
handleLinkClick(s, hasTarget) == IF hasTarget THEN closeMenu(s) ELSE s

\* click listener of document; inNav: nav.contains(e.target)
navClickListener(s, inNav) == IF s.open /\ ~inNav THEN closeMenu(s) ELSE s

\* a keydown listener that never closes the menu
navKeydownListenerDeaf(s, key) == s

\* keydown listener of document
navKeydownListener(s, key) ==
  IF key = "Escape" /\ s.open THEN closeMenu(s) ELSE s

SetNavState(s) ==
  /\ menuOpen' = s.open
  /\ navToggleExpanded' = s.expanded
  /\ UNCHANGED <<timers, windowVars, navScrolled, revealVars, statsVars,
                 filterVars, cardVars, modalVars, extraVars>>

\* a click on the menu toggle, which lies inside the navigation bar
ToggleClick ==
  /\ SetNavState(navClickListener(toggleMenu(NavState), TRUE))
  /\ defaultPrevented' = FALSE

\* a click on a navigation link, which lies inside the navigation bar;
\* handleLinkClick prevents the default jump and asks for a smooth scroll,
\* whose scroll events follow as NavScroll steps
NavLinkClick(hasTarget) ==
  /\ SetNavState(navClickListener(handleLinkClick(NavState, hasTarget), TRUE))
  /\ defaultPrevented' = TRUE

\* a click anywhere else on the page
PageClick(inNav) ==
  /\ SetNavState(navClickListener(NavState, inNav))
  /\ defaultPrevented' = FALSE

NavKeys == {"Escape", "Tab"}

NavKeydown(key) ==
  /\ SetNavState(navKeydownListener(NavState, key))
  /\ defaultPrevented' = FALSE

\* aria-expanded attributes the markup may give the toggle
ToggleAttrs == {"", "false"}

NavInit ==
  /\ navScrolled = FALSE
  /\ menuOpen = FALSE
  /\ navToggleExpanded \in ToggleAttrs

NavIdle ==
  /\ navScrolled = FALSE
  /\ menuOpen = FALSE
  /\ navToggleExpanded = "false"

(***************************************************************************)
(* isInViewport.  Rectangles are in pixels; a threshold is given in tenths *)
(* so that rect.height * threshold stays an integer computation.           *)
(***************************************************************************)
\* element.getBoundingClientRect() of an element whose rectangle in the
\* document is r, when the window is scrolled to y
BoundingRect(r, y) == [r EXCEPT !.top = r.top - y]

isInViewport(rect, tenths, windowHeight, windowWidth) ==
  LET vertInView == /\ rect.top <= windowHeight
                    /\ 10 * rect.top + rect.height * tenths >= 0
      horInView == rect.left <= windowWidth /\ rect.left + rect.width >= 0
  IN vertInView /\ horInView

(***************************************************************************)
(* ScrollAnimations                                                        *)
(***************************************************************************)
NumRevealEls == 2    \* elements carrying data-scroll-animation
RevealEls == 1..NumRevealEls

RevealWait == 200

\* where the layout may put a reveal element: at the top of the page, below
\* the first screen, and to the right of the window
RevealPositions ==
  {[top |-> 50, left |-> 0, height |-> 100, width |-> 100],
   [top |-> 250, left |-> 0, height |-> 100, width |-> 100],
   [top |-> 50, left |-> 800, height |-> 100, width |-> 100]}

RevealScrollPositions == {0, 150, 300}

\* a check that also takes the marker away from elements out of view
checkElementsBothWays(visible, y, windowHeight) ==
  [e \in RevealEls |->
     isInViewport(BoundingRect(layout[e], y), 1,
                  windowHeight, innerWidth)]

checkElements(visible, y, windowHeight) ==
  [e \in RevealEls |->
     IF isInViewport(BoundingRect(layout[e], y), 1,
                     windowHeight, innerWidth) /\ ~visible[e]
     THEN TRUE
     ELSE visible[e]]

\* the scroll listener of ScrollAnimations behind its throttle
RevealScroll(y) ==
  /\ y # scrollY
  /\ scrollY' = y
  /\ IF ~inThrottle["reveal"]
     THEN /\ revealVisible' = checkElements(revealVisible, y, innerHeight)
          /\ Throttle("reveal")
     ELSE UNCHANGED <<revealVisible, inThrottle, timers>>
  /\ UNCHANGED <<innerHeight, layout, navVars, statsVars, defaultPrevented,
                 filterVars, cardVars, modalVars, extraVars>>

\* debounce() of the resize listener of ScrollAnimations
DebouncedCheck(ts) ==
  SelectSeq(ts, LAMBDA t : t.kind # "revealResize")
    \o <<[kind |-> "revealResize", arg |-> 0, left |-> RevealWait]>>

\* the window's height is changed to h
RevealResize(h) ==
  /\ h # innerHeight
  /\ innerHeight' = h
  /\ timers' = DebouncedCheck(timers)
  /\ UNCHANGED <<scrollY, inThrottle, navVars, revealVars, statsVars,
                 defaultPrevented, filterVars, cardVars, modalVars, extraVars>>

\* the debounced resize callback of ScrollAnimations
RevealResizeCallback ==
  /\ NextDue(timers) # 0
  /\ timers[NextDue(timers)].kind = "revealResize"
  /\ timers' = RemoveAt(timers, NextDue(timers))
  /\ revealVisible' = checkElements(revealVisible, scrollY, innerHeight)
  /\ UNCHANGED <<windowVars, layout, navVars, statsVars, defaultPrevented,
                 filterVars, cardVars, modalVars, extraVars>>

\* init(): the first check runs during construction
RevealInit ==
  /\ layout \in [RevealEls -> RevealPositions]
  /\ revealVisible =
       checkElements([e \in RevealEls |-> FALSE], 0, 100)

RevealIdle ==
  /\ layout = [e \in RevealEls |->
                 [top |-> 50, left |-> 0, height |-> 100, width |-> 100]]
  /\ revealVisible = [e \in RevealEls |-> TRUE]

(***************************************************************************)
(* StatsCounter and animateCounter                                         *)
(***************************************************************************)
NumCounters == 2     \* elements carrying data-count
Counters == 1..NumCounters

CounterDuration == 2000
FrameTime == 16
\* duration / 16, the divisor of the increment
Frames == CounterDuration \div FrameTime

DigitChars == <<"0", "1", "2", "3", "4", "5", "6", "7", "8", "9">>
IsDigit(ch) == \E d \in 1..10 : DigitChars[d] = ch
DigitValue(ch) == (CHOOSE d \in 1..10 : DigitChars[d] = ch) - 1

NaN == [nan |-> TRUE, val |-> 0]
Number(n) == [nan |-> FALSE, val |-> n]

\* the value of the longest prefix of digits of s, after the digits seen so far
RECURSIVE ParseDigits(_, _, _)
ParseDigits(s, i, acc) ==
  IF i > Len(s) \/ ~IsDigit(s[i]) THEN acc
  ELSE ParseDigits(s, i + 1, 10 * acc + DigitValue(s[i]))

\* parseInt(string): an optional sign and the leading digits, or NaN
parseInt(s) ==
  LET neg == Len(s) > 0 /\ s[1] = "-"
      body == IF neg THEN Tail(s) ELSE s
  IN IF Len(body) = 0 \/ ~IsDigit(body[1]) THEN NaN
     ELSE Number((IF neg THEN -1 ELSE 1) * ParseDigits(body, 1, 0))

RECURSIVE Digits(_)
Digits(n) ==
  IF n < 10 THEN <<DigitChars[n + 1]>>
  ELSE Append(Digits(n \div 10), DigitChars[(n % 10) + 1])

\* digits in groups of three
RECURSIVE Grouped(_)
Grouped(ds) ==
  IF Len(ds) <= 3 THEN ds
  ELSE Grouped(SubSeq(ds, 1, Len(ds) - 3)) \o <<",">>
         \o SubSeq(ds, Len(ds) - 2, Len(ds))

\* number.toLocaleString() in a locale that groups with commas
toLocaleString(x) ==
  IF x.nan THEN <<"N", "a", "N">>
  ELSE IF x.val < 0 THEN <<"-">> \o Grouped(Digits(-x.val))
  ELSE Grouped(Digits(x.val))

\* data-count attributes the markup may carry
CountAttrs == <<(<<"7">>), (<<"1", "5", "0", "0">>), (<<"0">>)>>

\* the pages that are looked at: the counters carry the attributes in turn,
\* starting with any of them
CountMarkups ==
  {[c \in Counters |-> CountAttrs[((c + r) % Len(CountAttrs)) + 1]] :
     r \in 1..Len(CountAttrs)}

\* where the layout may put the first counter: on the first screen or below
StatRects ==
  {[top |-> 50, left |-> 0, height |-> 100, width |-> 100],
   [top |-> 250, left |-> 0, height |-> 100, width |-> 100]}

StatsScrollPositions == {0, 200}

\* a tick that shows the rounded-down value and never clears its interval
counterTickNoClear(a, short) ==
  IF a.target.nan
  THEN [done |-> FALSE, current |-> 0, text |-> toLocaleString(NaN)]
  ELSE LET n == IF a.current < Frames THEN a.current + 1 ELSE a.current
       IN [done |-> FALSE, current |-> n,
           text |-> toLocaleString(Number((n * a.target.val) \div Frames))]

\* One interval callback of animateCounter.  a is the closure: its element,
\* its target and the number of increments added to current so far, so that
\* current is a.current * target / Frames.  The sum is a floating-point one:
\* where the exact sum is a whole number and the increment is not, the
\* computed sum may fall just short of it (short).
counterTick(a, short) ==
  IF a.target.nan
  THEN [done |-> FALSE, current |-> 0, text |-> toLocaleString(NaN)]
  ELSE LET target == a.target.val
           n == a.current + 1
           sum == n * target
           low == /\ short
                  /\ target % Frames # 0
                  /\ sum % Frames = 0
           done == sum > Frames * target \/ (sum = Frames * target /\ ~low)
           floor == (sum \div Frames) - (IF low THEN 1 ELSE 0)
       IN IF done
          THEN [done |-> TRUE, current |-> n,
                text |-> toLocaleString(Number(target))]
          ELSE [done |-> FALSE, current |-> n,
                text |-> toLocaleString(Number(floor))]

\* the part of the state checkAndAnimate works on
StatsState ==
  [animated |-> statsAnimated, started |-> started, timers |-> timers]

\* animateCounter(element, target, 2000): a closure and its interval timer
animateCounter(s, c, target) ==
  [s EXCEPT !.started[c] = @ + 1,
            !.timers = Append(@, [kind |-> "interval",
                                  arg |-> [el |-> c, target |-> target,
                                           current |-> 0],
                                  left |-> FrameTime])]

\* animateCounters(): every counter in document order, from counter c on
RECURSIVE animateCountersFrom(_, _)
animateCountersFrom(s, c) ==
  IF c > NumCounters THEN s
  ELSE animateCountersFrom(animateCounter(s, c, parseInt(countAttr[c])), c + 1)

animateCounters(s) == animateCountersFrom(s, 1)

\* a check that does not look at the animated flag
checkAndAnimateAgain(s, y) ==
  IF isInViewport(BoundingRect(statRect, y), 5, innerHeight, innerWidth)
  THEN [animateCounters(s) EXCEPT !.animated = TRUE]
  ELSE s

checkAndAnimate(s, y) ==
  IF s.animated THEN s
  ELSE IF isInViewport(BoundingRect(statRect, y), 5, innerHeight, innerWidth)
  THEN [animateCounters(s) EXCEPT !.animated = TRUE]
  ELSE s

\* the scroll listener of StatsCounter behind its throttle
StatsScroll(y) ==
  /\ y # scrollY
  /\ scrollY' = y
  /\ IF ~inThrottle["stats"]
     THEN LET s == checkAndAnimate(StatsState, y) IN
            /\ statsAnimated' = s.animated
            /\ started' = s.started
            /\ inThrottle' = [inThrottle EXCEPT !["stats"] = TRUE]
            /\ timers' = Append(s.timers,
                                [kind |-> "throttle", arg |-> "stats",
                                 left |-> ThrottleLimit])
     ELSE UNCHANGED <<statsAnimated, started, inThrottle, timers>>
  /\ UNCHANGED <<innerHeight, statRect, countAttr, counterText, navVars,
                 revealVars, defaultPrevented, filterVars, cardVars,
                 modalVars, extraVars>>

IntervalDue ==
  NextDue(timers) # 0 /\ timers[NextDue(timers)].kind = "interval"

\* the interval callback of one counter
IntervalCallback ==
  /\ IntervalDue
  /\ \E short \in BOOLEAN :
       LET i == NextDue(timers)
           a == timers[i].arg
           r == counterTick(a, short)
       IN /\ counterText' = [counterText EXCEPT ![a.el] = r.text]
          /\ timers' = IF r.done THEN RemoveAt(timers, i)
                       ELSE [timers EXCEPT ![i].left = FrameTime,
                                           ![i].arg.current = r.current]
  /\ UNCHANGED <<windowVars, statRect, countAttr, statsAnimated, started,
                 navVars, revealVars, defaultPrevented, filterVars, cardVars,
                 modalVars, extraVars>>

\* what the counters show before any animation wrote to them
MarkupText == <<"0">>

\* constructor and init(): the first check runs during construction
StatsInit ==
  /\ statRect \in StatRects
  /\ countAttr \in CountMarkups
  /\ counterText = [c \in Counters |-> MarkupText]
  /\ LET s == checkAndAnimate([animated |-> FALSE,
                               started |-> [c \in Counters |-> 0],
                               timers |-> <<>>], 0)
     IN /\ statsAnimated = s.animated
        /\ started = s.started
        /\ timers = s.timers

\* a page whose counters were never brought into view
StatsIdle ==
  /\ statRect = [top |-> 250, left |-> 0, height |-> 100, width |-> 100]
  /\ countAttr = [c \in Counters |-> <<"0">>]
  /\ counterText = [c \in Counters |-> MarkupText]
  /\ statsAnimated = FALSE
  /\ started = [c \in Counters |-> 0]

(***************************************************************************)
(* ContactForm.  The e-mail value is a string the code matches against a   *)
(* regular expression, modelled as a sequence of characters; the other     *)
(* fields are only tested for emptiness.  messageDiv.className is the list *)
(* of its class names.                                                     *)
(***************************************************************************)
MaxEmailLen == 5     \* longest e-mail value tried character by character

SubmitDelay == 1000
FadeDelay == 5000
ClearDelay == 300

ValidationMessage == "Please fill in all fields correctly."
SuccessMessage == "Thank you for your message! I'll get back to you soon."
FailureMessage == "Oops! Something went wrong. Please try again."

\* \s of the regular expression, over the characters of EmailChars
IsSpace(ch) == ch = " "

\* [^\s@]
Plain(ch) == ~IsSpace(ch) /\ ch # "@"

\* a pattern that lets the text before the '@' be empty
emailRegexTestEmptyLocal(s) ==
  \E i \in 1..Len(s), j \in 1..Len(s) :
    /\ i + 1 < j /\ j < Len(s)
    /\ s[i] = "@"
    /\ s[j] = "."
    /\ \A k \in (1..Len(s)) \ {i} : Plain(s[k])

\* /^[^\s@]+@[^\s@]+\.[^\s@]+$/.test(s): i is the '@', j the matched '.'
emailRegexTest(s) ==
  \E i \in 1..Len(s), j \in 1..Len(s) :
    /\ 1 < i /\ i + 1 < j /\ j < Len(s)
    /\ s[i] = "@"
    /\ s[j] = "."
    /\ \A k \in (1..Len(s)) \ {i} : Plain(s[k])

\* a validation that only asks for filled fields
validateFormNoRegex(data) ==
  ~(data.name = "" \/ data.email = <<>> \/ data.subject = ""
      \/ data.message = "")

validateForm(data) ==
  IF data.name = "" \/ data.email = <<>> \/ data.subject = ""
       \/ data.message = ""
  THEN FALSE
  ELSE emailRegexTest(data.email)

\* the controls after form.reset(): their default values
EmptyForm == [name |-> "", email |-> <<>>, subject |-> "", message |-> ""]

FormState ==
  [data |-> formData, text |-> messageText, class |-> messageClass,
   opacity |-> messageOpacity, timers |-> timers]

showMessage(s, message, type) ==
  [s EXCEPT !.text = message,
            !.class = <<"form-message", type>>,
            !.timers = Append(@, [kind |-> "fade", arg |-> 0,
                                  left |-> FadeDelay])]

\* a submission whose promise is rejected after the delay
simulateFormSubmissionRejects(data) ==
  [kind |-> "submit", arg |-> [data |-> data, settles |-> "reject"],
   left |-> SubmitDelay]

\* the timer of the promise simulateFormSubmission returns: its executor
\* keeps data and calls nothing but resolve
simulateFormSubmission(data) ==
  [kind |-> "submit", arg |-> [data |-> data, settles |-> "resolve"],
   left |-> SubmitDelay]

\* a handler whose submission takes the place of the pending ones
handleSubmitReplacing(s) ==
  IF ~validateForm(s.data)
  THEN showMessage(s, ValidationMessage, "error")
  ELSE [s EXCEPT !.timers =
          Append(SelectSeq(@, LAMBDA t : t.kind # "submit"),
                 simulateFormSubmission(s.data))]

\* handleSubmit up to its await
handleSubmit(s) ==
  IF ~validateForm(s.data)
  THEN showMessage(s, ValidationMessage, "error")
  ELSE [s EXCEPT !.timers = Append(@, simulateFormSubmission(s.data))]

\* a continuation that leaves the controls as they are
submitResolvedNoReset(s) == showMessage(s, SuccessMessage, "success")

\* handleSubmit after its await when the promise was resolved
submitResolved(s) ==
  [showMessage(s, SuccessMessage, "success") EXCEPT !.data = EmptyForm]

\* handleSubmit after its await, in the try block or in the catch block
submitSettled(s, settles) ==
  IF settles = "resolve" THEN submitResolved(s)
  ELSE showMessage(s, FailureMessage, "error")

SetFormState(s) ==
  /\ formData' = s.data
  /\ messageText' = s.text
  /\ messageClass' = s.class
  /\ messageOpacity' = s.opacity
  /\ timers' = s.timers
  /\ UNCHANGED <<windowVars, navVars, revealVars, statsVars, darkVars,
                 bootVars, filterVars, cardVars, modalVars>>

\* the user edits the controls
FillForm(d) ==
  /\ d # formData
  /\ SetFormState([FormState EXCEPT !.data = d])
  /\ UNCHANGED defaultPrevented

\* the 'submit' listener of the form
Submit ==
  /\ Len(timers) < MaxBursts
  /\ SetFormState(handleSubmit(FormState))
  /\ defaultPrevented' = TRUE

\* the timer of simulateFormSubmission settles the awaited promise
SubmitCallback ==
  /\ NextDue(timers) # 0
  /\ timers[NextDue(timers)].kind = "submit"
  /\ SetFormState(submitSettled(
       [FormState EXCEPT !.timers = RemoveAt(timers, NextDue(timers))],
       timers[NextDue(timers)].arg.settles))
  /\ UNCHANGED defaultPrevented

\* the outer timer of showMessage
FadeCallback ==
  /\ NextDue(timers) # 0
  /\ timers[NextDue(timers)].kind = "fade"
  /\ SetFormState(
       [FormState EXCEPT
          !.opacity = "0",
          !.timers = Append(RemoveAt(timers, NextDue(timers)),
                            [kind |-> "clear", arg |-> 0,
                             left |-> ClearDelay])])
  /\ UNCHANGED defaultPrevented

\* the inner timer of showMessage
ClearCallback ==
  /\ NextDue(timers) # 0
  /\ timers[NextDue(timers)].kind = "clear"
  /\ SetFormState(
       [FormState EXCEPT !.class = <<"form-message">>,
                         !.opacity = "1",
                         !.timers = RemoveAt(timers, NextDue(timers))])
  /\ UNCHANGED defaultPrevented

EmailChars == {"a", ".", "@", " "}

RECURSIVE StringsUpTo(_)
StringsUpTo(n) ==
  IF n = 0 THEN {<<>>}
  ELSE LET shorter == StringsUpTo(n - 1)
       IN shorter \cup {Append(s, ch) : s \in shorter, ch \in EmailChars}

\* the e-mail values the specification names
NamedEmails ==
  { <<"a", "@", "b", ".", "c", "o">>, <<"a", "@", "b">>,
    <<"a", " ", "b", "@", "c", ".", "d">>, <<>> }

FilledForm ==
  [name |-> "Ann", email |-> <<"a", "@", "b", ".", "c", "o">>,
   subject |-> "Hi", message |-> "Hello"]

\* what the user may type into the four controls: all of them filled, with
\* each of the named e-mail values, or one of them left empty
FormInputs ==
  {[FilledForm EXCEPT !.email = e] : e \in NamedEmails}
    \cup {[FilledForm EXCEPT ![f] = ""] : f \in {"name", "subject", "message"}}

MessageInit ==
  /\ messageText = ""
  /\ messageClass = <<"form-message">>
  /\ messageOpacity = ""

FormInit == formData = EmptyForm /\ MessageInit

\* every bounded e-mail value, next to three fields that are filled in
ValidateInit ==
  /\ formData \in [name : {"Ann"}, subject : {"Hi"}, message : {"Hello"},
                   email : StringsUpTo(MaxEmailLen) \cup NamedEmails]
  /\ MessageInit

FormIdle == FormInit

(***************************************************************************)
(* DarkMode                                                                *)
(***************************************************************************)
\* document.body.classList, over the class names the components write
BodyClassList ==
  (IF bodyDark THEN {"dark-mode"} ELSE {})
    \cup (IF bodyModalOpen THEN {"modal-open"} ELSE {})

DarkState ==
  [classList |-> BodyClassList, stored |-> storedMode,
   writers |-> bodyWriters]

setMode(s, isDark) ==
  [s EXCEPT !.classList = IF isDark THEN @ \cup {"dark-mode"}
                          ELSE @ \ {"dark-mode"},
            !.writers = @ \cup {"DarkMode"}]

\* a toggle that replaces the whole class attribute of body
toggleClassName(s) ==
  LET isDark == "dark-mode" \notin s.classList IN
    [classList |-> IF isDark THEN {"dark-mode"} ELSE {},
     stored |-> IF isDark THEN "enabled" ELSE "disabled",
     writers |-> s.writers \cup {"DarkMode"}]

toggle(s) ==
  LET isDark == "dark-mode" \notin s.classList IN
    [classList |-> IF isDark THEN s.classList \cup {"dark-mode"}
                   ELSE s.classList \ {"dark-mode"},
     stored |-> IF isDark THEN "enabled" ELSE "disabled",
     writers |-> s.writers \cup {"DarkMode"}]

\* a listener that follows the system whatever is stored
changeListenerAlways(s, matches) == setMode(s, matches)

\* 'change' listener of the (prefers-color-scheme: dark) media query
changeListener(s, matches) ==
  IF s.stored = "" THEN setMode(s, matches) ELSE s

\* a load that follows the system whenever it prefers dark
loadSavedModeSystemFirst(s, system) ==
  IF system THEN setMode(s, TRUE)
  ELSE IF s.stored = "enabled" THEN setMode(s, TRUE)
  ELSE IF s.stored = "disabled" THEN setMode(s, FALSE)
  ELSE s

loadSavedMode(s, system) ==
  IF s.stored = "enabled" THEN setMode(s, TRUE)
  ELSE IF s.stored = "disabled" THEN setMode(s, FALSE)
  ELSE IF system THEN setMode(s, TRUE)
  ELSE s

\* body's dark-mode class once the constructor of DarkMode has run
LoadedDark(stored, system) ==
  "dark-mode" \in loadSavedMode([classList |-> {}, stored |-> stored,
                                 writers |-> {}], system).classList

SetDarkState(s) ==
  /\ bodyDark' = ("dark-mode" \in s.classList)
  /\ bodyModalOpen' = ("modal-open" \in s.classList)
  /\ storedMode' = s.stored
  /\ bodyWriters' = s.writers
  /\ UNCHANGED <<timers, windowVars, navScrolled, revealVars, statsVars,
                 formVars, bootVars, filterVars, cardVars, currentLanguage,
                 cardProject,
                 modalOpen, ariaHidden, modalContent, scrollTop,
                 activeElement, trapListeners>>

\* a click on the dark-mode toggle: its own listener runs, then the click
\* listener Navigation registered on document
DarkToggleClick(inNav) ==
  /\ SetDarkState(toggle(DarkState))
  /\ LET n == navClickListener(NavState, inNav) IN
       menuOpen' = n.open /\ navToggleExpanded' = n.expanded
  /\ defaultPrevented' = FALSE
  /\ UNCHANGED systemDark

\* the system colour scheme changes
SystemChange(matches) ==
  /\ matches # systemDark
  /\ systemDark' = matches
  /\ SetDarkState(changeListener(DarkState, matches))
  /\ UNCHANGED <<menuOpen, navToggleExpanded, defaultPrevented>>

\* localStorage keeps what toggles of earlier visits stored
DarkInit ==
  /\ storedMode \in {"", "enabled", "disabled"}
  /\ systemDark \in BOOLEAN
  /\ bodyDark = LoadedDark(storedMode, systemDark)

DarkIdle ==
  /\ storedMode = ""
  /\ bodyDark = FALSE
  /\ systemDark = FALSE

(***************************************************************************)
(* The boot sequence and absent elements.  The markup is not part of the   *)
(* sources: which of the looked-up elements exist, and whether the page    *)
(* may read localStorage, is an input.                                     *)
(***************************************************************************)
BootOrder ==
  <<"Navigation", "DarkMode", "ScrollAnimations", "ExperienceFilter",
    "SkillsProgress", "StatsCounter", "StatSources", "ContactForm",
    "BackToTop", "LazyLoader", "AccessibilityEnhancements", "ProjectModal">>

\* element ids and selectors the constructors look up, and localStorage
Lookups ==
  {"mainNav", "navToggle", "navMenu", "darkModeToggle", "contactForm",
   "formMessage", "backToTop", "projectModal", ".project-modal__container",
   "localStorage"}

\* the constructor of component throws on a page that offers p
ConstructorThrows(component, p) ==
  \/ /\ component = "DarkMode"
     /\ "localStorage" \notin p       \* getItem throws where storage is denied
  \/ /\ component = "ProjectModal"
     /\ "projectModal" \in p
     /\ ".project-modal__container" \notin p

\* number of constructors that return before the first one throws
RECURSIVE ConstructedUpTo(_, _)
ConstructedUpTo(k, p) ==
  IF k > Len(BootOrder) \/ ConstructorThrows(BootOrder[k], p) THEN k - 1
  ELSE ConstructedUpTo(k + 1, p)

\* the DOMContentLoaded listener: the first exception ends it
Boot ==
  /\ constructed = <<>>
  /\ LET n == ConstructedUpTo(1, present) IN
       /\ constructed' = SubSeq(BootOrder, 1, n)
       /\ smoothScrolling' = (n = Len(BootOrder))
       /\ bodyLoaded' = (n = Len(BootOrder))
       /\ threw' = IF n = Len(BootOrder) THEN "" ELSE BootOrder[n + 1]
  /\ UNCHANGED <<present, timers, defaultPrevented, windowVars, navVars,
                 revealVars, statsVars, formVars, darkVars, filterVars,
                 cardVars, modalVars>>

IsConstructed(component) ==
  \E k \in 1..Len(constructed) : constructed[k] = component

\* the listeners that run for an event of the given kind, in the order of
\* their registration, each with the lookups it dereferences unguarded
Listeners(event) ==
  IF event = "scroll"
  THEN <<[of |-> "Navigation", needs |-> {"mainNav"}, on |-> "window"]>>
  ELSE IF event = "click"
  THEN <<[of |-> "Navigation", needs |-> {"navMenu"}, on |-> "document"]>>
  ELSE IF event = "Escape"
  THEN <<[of |-> "Navigation", needs |-> {"navMenu"}, on |-> "document"],
         [of |-> "ProjectModal", needs |-> {}, on |-> "projectModal"]>>
  ELSE <<[of |-> "ContactForm", needs |-> {"formMessage"},
          on |-> "contactForm"]>>

Events == {"scroll", "click", "Escape", "submit"}

\* a listener exists if its component was constructed and found the
\* element it registers on
Registered(l) ==
  /\ IsConstructed(l.of)
  /\ l.on \in {"window", "document"} \/ l.on \in present

\* the first registered listener of the event that dereferences an absent
\* element, "" when every listener returns
RECURSIVE FirstThrower(_, _)
FirstThrower(ls, k) ==
  IF k > Len(ls) THEN ""
  ELSE IF Registered(ls[k]) /\ ~(ls[k].needs \subseteq present)
  THEN ls[k].of
  ELSE FirstThrower(ls, k + 1)

\* an event is dispatched after the boot
Dispatch(event) ==
  /\ constructed # <<>>
  /\ threw' = FirstThrower(Listeners(event), 1)
  /\ UNCHANGED <<present, constructed, smoothScrolling, bodyLoaded, timers,
                 defaultPrevented, windowVars, navVars, revealVars, statsVars,
                 formVars, darkVars, filterVars, cardVars, modalVars>>

\* the page before DOMContentLoaded
BootInit ==
  /\ present \in SUBSET Lookups
  /\ constructed = <<>>
  /\ smoothScrolling = FALSE
  /\ bodyLoaded = FALSE
  /\ threw = ""

\* a complete page after the boot
BootIdle ==
  /\ present = Lookups
  /\ constructed = BootOrder
  /\ smoothScrolling = TRUE
  /\ bodyLoaded = TRUE
  /\ threw = ""

(***************************************************************************)
(* Specifications                                                          *)
(***************************************************************************)
NoEvent == timers = <<>> /\ defaultPrevented = FALSE

ExtraIdle == FormIdle /\ DarkIdle /\ BootIdle

PageIdle == WindowInit /\ NavIdle /\ RevealIdle /\ StatsIdle /\ ExtraIdle

InitFilter == NoEvent /\ FilterInit /\ CardsIdle /\ ModalIdle /\ PageIdle

NextFilter ==
  \/ \E f \in Filters : FilterClick(f)
  \/ ShowCallback
  \/ HideCallback
  \/ ElapseToDue
  \/ ElapsePart

SpecFilter == InitFilter /\ [][NextFilter]_vars

InitCards == NoEvent /\ FilterIdle /\ CardsInit /\ ModalIdle /\ PageIdle

NextCards ==
  \/ \E c \in Cards : ExpandClick(c)
  \/ \E c \in Cards, key \in KeydownKeys : ExpandKeydown(c, key)
  \/ \E w \in Widths : Resize(w)
  \/ ResizeCallback
  \/ ElapseToDue

SpecCards == InitCards /\ [][NextCards]_vars

\* a due callback runs, and a burst of resize events ends
SpecCardsFair ==
  SpecCards /\ WF_vars(ElapseToDue) /\ SF_vars(ResizeCallback)

NextCardsLegacy ==
  \/ \E c \in Cards : ExpandClick(c)
  \/ \E c \in Cards, key \in KeydownKeys : ExpandKeydown(c, key)
  \/ \E w \in Widths : Resize(w)
  \/ ResizeCallbackLegacy
  \/ ElapseToDue

SpecCardsLegacy == InitCards /\ [][NextCardsLegacy]_vars

InitModal == NoEvent /\ FilterIdle /\ CardsIdle /\ ModalInit /\ PageIdle

NextModal ==
  \/ \E k \in KeyInputs : Keydown(k)
  \/ \E c \in ProjectCards, onLink \in BOOLEAN : CardClick(c, onLink)
  \/ CloseClick
  \/ BackdropClick
  \/ ContainerClick
  \/ \E y \in ScrollOffsets : ScrollContainer(y)
  \/ FocusCallback
  \/ ElapseToDue

SpecModal == InitModal /\ [][NextModal]_vars

InitNav ==
  /\ NoEvent /\ FilterIdle /\ CardsIdle /\ ModalIdle
  /\ WindowInit /\ NavInit /\ RevealIdle /\ StatsIdle /\ ExtraIdle

NextNav ==
  \/ \E y \in NavScrollPositions : NavScroll(y)
  \/ ThrottleCallback("nav")
  \/ ToggleClick
  \/ \E hasTarget \in BOOLEAN : NavLinkClick(hasTarget)
  \/ \E inNav \in BOOLEAN : PageClick(inNav)
  \/ \E key \in NavKeys : NavKeydown(key)
  \/ ElapseToDue

SpecNav == InitNav /\ [][NextNav]_vars

InitReveal ==
  /\ NoEvent /\ FilterIdle /\ CardsIdle /\ ModalIdle
  /\ WindowInit /\ NavIdle /\ RevealInit /\ StatsIdle /\ ExtraIdle

NextReveal ==
  \/ \E y \in RevealScrollPositions : RevealScroll(y)
  \/ \E h \in ViewportHeights : RevealResize(h)
  \/ ThrottleCallback("reveal")
  \/ RevealResizeCallback
  \/ ElapseToDue

SpecReveal == InitReveal /\ [][NextReveal]_vars

\* StatsInit also gives the timers: the counters may start during construction
InitStats ==
  /\ defaultPrevented = FALSE
  /\ FilterIdle /\ CardsIdle /\ ModalIdle
  /\ WindowInit /\ NavIdle /\ RevealIdle /\ StatsInit /\ ExtraIdle

NextStats ==
  \/ \E y \in StatsScrollPositions : StatsScroll(y)
  \/ ThrottleCallback("stats")
  \/ IntervalCallback
  \/ ElapseToDue

SpecStats == InitStats /\ [][NextStats]_vars

\* a due callback runs and time passes
SpecStatsFair ==
  /\ SpecStats
  /\ WF_vars(ElapseToDue)
  /\ WF_vars(IntervalCallback)
  /\ WF_vars(ThrottleCallback("stats"))

InitForm ==
  /\ NoEvent /\ FilterIdle /\ CardsIdle /\ ModalIdle
  /\ WindowInit /\ NavIdle /\ RevealIdle /\ StatsIdle /\ FormInit /\ DarkIdle
  /\ BootIdle

NextForm ==
  \/ \E d \in FormInputs : FillForm(d)
  \/ Submit
  \/ SubmitCallback
  \/ FadeCallback
  \/ ClearCallback
  \/ ElapseToDue

SpecForm == InitForm /\ [][NextForm]_vars

\* the user types a form that passes the validation or one that does not
NextFormPlain ==
  \/ \E e \in {FilledForm.email, <<"a", "@", "b">>} :
       FillForm([FilledForm EXCEPT !.email = e])
  \/ Submit
  \/ SubmitCallback
  \/ FadeCallback
  \/ ClearCallback
  \/ ElapseToDue

\* time passes and due callbacks run
SpecFormFair ==
  /\ InitForm /\ [][NextFormPlain]_vars
  /\ WF_vars(ElapseToDue)
  /\ WF_vars(SubmitCallback)
  /\ WF_vars(FadeCallback)
  /\ WF_vars(ClearCallback)

\* the form is submitted while no callback is pending
SubmitWhenIdle == timers = <<>> /\ Submit

\* submissions of one typed value, for every bounded e-mail value
InitValidate ==
  /\ NoEvent /\ FilterIdle /\ CardsIdle /\ ModalIdle
  /\ WindowInit /\ NavIdle /\ RevealIdle /\ StatsIdle /\ ValidateInit
  /\ DarkIdle /\ BootIdle

NextValidate ==
  \/ SubmitWhenIdle
  \/ SubmitCallback
  \/ FadeCallback
  \/ ClearCallback
  \/ ElapseToDue

SpecValidate == InitValidate /\ [][NextValidate]_vars

\* DarkInit is the page just loaded, for every preference earlier visits
\* may have stored
InitDark ==
  /\ NoEvent /\ FilterIdle /\ CardsIdle /\ ModalIdle
  /\ WindowInit /\ NavInit /\ RevealIdle /\ StatsIdle /\ FormIdle /\ DarkInit
  /\ BootIdle

NextDark ==
  \/ NextNav
  \/ \E inNav \in BOOLEAN : DarkToggleClick(inNav)
  \/ \E matches \in BOOLEAN : SystemChange(matches)

SpecDark == InitDark /\ [][NextDark]_vars

\* the two components that write body's class list, side by side
InitBody ==
  /\ NoEvent /\ FilterIdle /\ CardsIdle /\ ModalInit
  /\ WindowInit /\ NavIdle /\ RevealIdle /\ StatsIdle /\ FormIdle /\ DarkInit
  /\ BootIdle

NextBody ==
  \/ \E c \in ProjectCards, onLink \in BOOLEAN : CardClick(c, onLink)
  \/ CloseClick
  \/ FocusCallback
  \/ ElapseToDue
  \/ \E inNav \in BOOLEAN : DarkToggleClick(inNav)
  \/ \E matches \in BOOLEAN : SystemChange(matches)

SpecBody == InitBody /\ [][NextBody]_vars

InitBoot ==
  /\ NoEvent /\ FilterIdle /\ CardsIdle /\ ModalIdle
  /\ WindowInit /\ NavIdle /\ RevealIdle /\ StatsIdle /\ FormIdle /\ DarkIdle
  /\ BootInit

NextBoot ==
  \/ Boot
  \/ \E event \in Events : Dispatch(event)

SpecBoot == InitBoot /\ [][NextBoot]_vars

(***************************************************************************)
(* Properties                                                              *)
(***************************************************************************)
\* no delayed callback is pending
Quiescent == timers = <<>>

Visible(item) == ~itemHidden[item]

\* C1: once every delayed callback has run, an entry is visible exactly when
\* the current filter is 'all' or is one of the entry's category tags.
C1_VisibleIffMatches ==
  Quiescent =>
    \A e \in Items :
      Visible(e) <=> (currentFilter = AllFilter
                        \/ Includes(Categories(e), currentFilter))

AllCollapsed ==
  /\ ~isExpanded
  /\ \A c \in Cards : ~detailsExpanded[c] /\ ariaExpanded[c] = "false"

\* C2: whenever the viewport is on the other side of the breakpoint than the
\* remembered mode (the boundary was crossed), a state follows in which the
\* shared flag is false and every card is collapsed.
C2_CrossingResets == (isMobile(innerWidth) # wasMobile) ~> AllCollapsed

\* a step in which the debounced resize callback runs
ResizeCallbackStep == ResizeDue /\ Len(timers') < Len(timers)

\* C3: a resize callback that finds the width on the side of the remembered
\* mode changes neither the shared flag, nor a card, nor the remembered mode.
C3_SameSideResizeUntouched ==
  [][(ResizeCallbackStep /\ isMobile(innerWidth) = wasMobile)
       => UNCHANGED <<isExpanded, detailsExpanded, ariaExpanded, wasMobile>>]_vars

\* C4: in narrow mode a click on control i flips card i's marker and
\* attribute and leaves every other card and the shared flag alone.
C4_NarrowTogglesOneCard ==
  [][\A i \in Cards :
       (ExpandClick(i) /\ isMobile(innerWidth))
         => /\ detailsExpanded'[i] = ~detailsExpanded[i]
            /\ ariaExpanded'[i] # ariaExpanded[i]
            /\ ariaExpanded'[i] = AttrOf(detailsExpanded'[i])
            /\ \A j \in Cards \ {i} :
                 /\ detailsExpanded'[j] = detailsExpanded[j]
                 /\ ariaExpanded'[j] = ariaExpanded[j]
            /\ isExpanded' = isExpanded]_vars

\* narrow mode, exactly one card expanded, the shared flag still false
C4_Witness ==
  /\ isMobile(innerWidth)
  /\ ~isExpanded
  /\ \E i \in Cards :
       /\ detailsExpanded[i] /\ ariaExpanded[i] = "true"
       /\ \A j \in Cards \ {i} : ~detailsExpanded[j] /\ ariaExpanded[j] = "false"

\* C5: in wide mode a click on any control negates the shared flag, and all
\* markers and attributes then equal the new flag.
C5_WideTogglesAll ==
  [][\A i \in Cards :
       (ExpandClick(i) /\ ~isMobile(innerWidth))
         => /\ isExpanded' = ~isExpanded
            /\ \A c \in Cards :
                 /\ detailsExpanded'[c] = isExpanded'
                 /\ ariaExpanded'[c] = AttrOf(isExpanded')]_vars

\* wide mode, the shared flag set and every card expanded
C5_Witness ==
  /\ ~isMobile(innerWidth)
  /\ isExpanded
  /\ \A c \in Cards : detailsExpanded[c] /\ ariaExpanded[c] = "true"

\* C6: an Enter or Space keydown on control i leaves the cards in the state
\* one click on control i would leave them in.
C6_KeydownEqualsClick ==
  [][\A i \in Cards, key \in ActivationKeys :
       ExpandKeydown(i, key)
         => LET c == expandClickListener(CardState, i, innerWidth) IN
              /\ isExpanded' = c.isExpanded
              /\ detailsExpanded' = c.details
              /\ ariaExpanded' = c.aria]_vars

\* C7: the open marker, aria-hidden='false' and the body scroll lock are
\* all set or all clear.
C7_OpenMarkersAgree ==
  /\ modalOpen <=> (ariaHidden = "false")
  /\ modalOpen <=> bodyModalOpen

\* the dialog is open, shows a project, and its close control has focus
C7_Witness ==
  /\ modalOpen /\ bodyModalOpen /\ ariaHidden = "false"
  /\ modalContent # EmptyContent
  /\ activeElement = CloseButton

\* C8: activating a card whose identifier is not a key of the project data
\* changes nothing of the dialog: content, markers, scroll lock and offset,
\* focus, listeners and pending callbacks stay as they are.
C8_UnknownIdNoOp ==
  [][\A c \in ProjectCards :
       LookupKind(cardProject[c]) # "own"
         => /\ CardClick(c, FALSE)
                 => /\ UNCHANGED <<modalContent, modalOpen, ariaHidden,
                                   bodyModalOpen, scrollTop, trapListeners,
                                   timers>>
                    /\ activeElement' = CardEl(c)
            /\ (/\ activeElement = CardEl(c)
                /\ modalOpen \/ trapListeners = 0
                /\ \E k \in KeyInputs : k.key \in ActivationKeys /\ Keydown(k))
                 => UNCHANGED <<modalVars, timers>>]_vars

\* a card with an unknown identifier was activated by key after a project had
\* been shown and dismissed
C8_Witness ==
  /\ IsCard(activeElement)
  /\ LookupKind(cardProject[activeElement.n]) # "own"
  /\ defaultPrevented
  /\ modalContent # EmptyContent
  /\ ~modalOpen

\* C9: when the dialog is dismissed after the delayed focus move put focus on
\* the close control, focus is on a triggering card afterwards.
C9_CloseReturnsFocus ==
  [][(modalOpen /\ ~modalOpen' /\ activeElement = CloseButton)
       => IsCard(activeElement')]_vars

\* a step that dispatches a Tab keydown
TabStep(shift) == Keydown([key |-> "Tab", shift |-> shift])

\* C10: in the open dialog Shift+Tab on the first focusable element moves
\* focus to the last, Tab on the last moves it to the first, and the default
\* traversal is suppressed.
C10_TabWraps ==
  [][/\ (modalOpen /\ activeElement = firstElement /\ TabStep(TRUE))
          => activeElement' = lastElement /\ defaultPrevented'
     /\ (modalOpen /\ activeElement = lastElement /\ TabStep(FALSE))
          => activeElement' = firstElement /\ defaultPrevented']_vars

\* focus was wrapped to the last element by a suppressed Shift+Tab
C10_Witness ==
  modalOpen /\ activeElement = lastElement /\ defaultPrevented

\* C11: while the dialog is open, a Tab or Shift+Tab keydown leaves keyboard
\* focus on one of the dialog's focusable elements, also before the delayed
\* focus move.
C11_TabStaysInDialog ==
  [][(modalOpen /\ (TabStep(FALSE) \/ TabStep(TRUE)))
       => \E k \in 1..Len(focusableElements) :
            activeElement' = focusableElements[k]]_vars

\* a step that dispatches some keydown
KeydownStep == \E k \in KeyInputs : Keydown(k)

C13_DismissalTriggers ==
  [][/\ (modalOpen /\ (\/ CloseClick
                        \/ BackdropClick
                        \/ Keydown([key |-> "Escape", shift |-> FALSE])))
          => ~modalOpen'
     /\ (modalOpen /\ ContainerClick) => modalOpen']_vars

\* after the delayed focus move a click inside the content container took
\* focus off the close control, and the dialog is still open
C13_Witness ==
  /\ modalOpen
  /\ timers = <<>>
  /\ activeElement = Body

\* the record a known project is expected to be shown with under a page
\* language
ExpectedRecord(projectId, lang) ==
  CASE projectId = "language-space" /\ lang = "it" -> LanguageSpaceIt
    [] projectId = "language-space" /\ lang # "it" -> LanguageSpaceEn
    [] projectId = "eutimiamo" /\ lang = "it" -> EutimiamoIt
    [] projectId = "eutimiamo" /\ lang # "it" -> EutimiamoEn

\* card c is activated by a pointer click outside its links or by Enter/Space
Activate(c) ==
  \/ CardClick(c, FALSE)
  \/ /\ activeElement = CardEl(c)
     /\ \E k \in KeyInputs : k.key \in ActivationKeys /\ Keydown(k)

\* C14: activating a card of a known project makes every content element show
\* the project's record for the page language, or its 'en' record when the
\* project has none for that language; nothing of another or of the
\* previously shown project remains.
C14_ShowsPageLanguageVariant ==
  [][\A c \in ProjectCards :
       (cardProject[c] \in DOMAIN projectData /\ Activate(c))
         => LET project == ExpectedRecord(cardProject[c], currentLanguage) IN
              /\ modalOpen'
              /\ modalContent'.logoSrc = project.logo
              /\ modalContent'.logoAlt = <<project.title, " Logo">>
              /\ modalContent'.title = project.title
              /\ modalContent'.subtitle = project.subtitle
              /\ modalContent'.description = project.description
              /\ modalContent'.highlights = project.highlights
              /\ modalContent'.stats = project.stats
              /\ modalContent'.ctaText = project.ctaText
              /\ modalContent'.ctaHref = project.ctaUrl]_vars

\* on an Italian page 'eutimiamo' was opened over an earlier open, and its
\* Italian record is shown
C14_Witness ==
  /\ modalOpen
  /\ trapListeners = 2
  /\ currentLanguage = "it"
  /\ modalContent.description = EutimiamoIt.description

\* C15: whatever project the dialog shows, its subtitle and call-to-action
\* label are those of the shown language variant, both call-to-action
\* elements carry the same label and URL, and the URL is the one of the
\* project's English variant; 'eutimiamo' on an Italian page shows the
\* Italian subtitle and label with the English variant's URL.
C15_VariantLabelEnglishUrl ==
  /\ modalContent # EmptyContent =>
       \E id \in DOMAIN projectData :
         LET l == IF currentLanguage \in DOMAIN projectData[id]
                  THEN currentLanguage ELSE "en"
         IN /\ modalContent.title = projectData[id][l].title
            /\ modalContent.subtitle = projectData[id][l].subtitle
            /\ modalContent.ctaText = projectData[id][l].ctaText
            /\ modalContent.ctaTextTop = modalContent.ctaText
            /\ modalContent.ctaHref = projectData[id]["en"].ctaUrl
            /\ modalContent.ctaHrefTop = modalContent.ctaHref
  /\ (currentLanguage = "it" /\ modalContent.title = "Eutimiamo") =>
       /\ modalContent.subtitle
            = "Educazione Psicologica e Contenuti Documentari"
       /\ modalContent.ctaText = "Vedi il Canale"
       /\ modalContent.ctaTextTop = "Vedi il Canale"
       /\ modalContent.ctaHref = "https://www.youtube.com/@eutimiamo"
       /\ modalContent.ctaHrefTop = "https://www.youtube.com/@eutimiamo"
       /\ EutimiamoEn.ctaUrl = "https://www.youtube.com/@eutimiamo"

\* 'eutimiamo' is open on an Italian page
C15_Witness ==
  /\ modalOpen
  /\ currentLanguage = "it"
  /\ modalContent.title = "Eutimiamo"
  /\ modalContent.ctaTextTop = "Vedi il Canale"

\* scrolling has stopped and the throttle of the navigation listener expired
NavSettled ==
  /\ ~inThrottle["nav"]
  /\ \A k \in 1..Len(timers) : timers[k].kind # "throttle"

\* C19: once scrolling has stopped and the throttle timer has expired, the
\* navigation bar carries 'scrolled' exactly when the scroll offset exceeds 50.
C19_ScrolledIffPastOffset ==
  NavSettled => (navScrolled <=> scrollY > 50)

\* C20: the toggle's aria-expanded attribute says "true" exactly when the
\* mobile menu carries is-open.
C20_AriaMirrorsMenu ==
  (navToggleExpanded = "true") <=> menuOpen

\* the menu was opened with the toggle
C20_Witness ==
  menuOpen /\ navToggleExpanded = "true"

\* an interval timer of counter c is pending
Running(c) ==
  \E k \in 1..Len(timers) :
    timers[k].kind = "interval" /\ timers[k].arg.el = c

\* the number a displayed text reads as
Shown(text) == parseInt(SelectSeq(text, LAMBDA ch : ch # ","))

\* C16: a counter with an integer target whose animation has started comes to
\* a state where its interval is cleared and it shows exactly the target;
\* while the interval is pending, every value the animation has written is
\* an integer strictly below the target.
C16_CounterReachesTarget ==
  /\ statsAnimated
       ~> (\A c \in Counters :
             (~parseInt(countAttr[c]).nan /\ started[c] > 0)
               => /\ ~Running(c)
                  /\ Shown(counterText[c]) = parseInt(countAttr[c])
                  /\ counterText[c] = toLocaleString(parseInt(countAttr[c])))
  /\ [](\A k \in 1..Len(timers) :
         (/\ timers[k].kind = "interval"
          /\ ~timers[k].arg.target.nan
          /\ timers[k].arg.current > 0)
           => LET v == Shown(counterText[timers[k].arg.el]) IN
                /\ ~v.nan
                /\ v.val < timers[k].arg.target.val
                /\ toLocaleString(v) = counterText[timers[k].arg.el])

\* the first counter, declared as 1500, finished and shows "1,500"
C16_Witness ==
  /\ started[1] = 1
  /\ ~Running(1)
  /\ countAttr[1] = <<"1", "5", "0", "0">>
  /\ counterText[1] = <<"1", ",", "5", "0", "0">>

\* C17: animateCounter is called at most once for every counter, all of them
\* in the one call of animateCounters that sets the animated flag, and no
\* counter ever has two interval timers.
C17_AnimatesAtMostOnce ==
  \A c \in Counters :
    /\ started[c] = (IF statsAnimated THEN 1 ELSE 0)
    /\ Cardinality({k \in 1..Len(timers) :
                      timers[k].kind = "interval" /\ timers[k].arg.el = c}) <= 1

\* the counters were scrolled into view, ran, and were scrolled out of view
\* again; the throttle has expired, so the next scroll event is looked at
C17_Witness ==
  /\ statsAnimated
  /\ statRect.top = 250
  /\ scrollY = 0
  /\ timers = <<>>

\* reveal element e satisfies the visibility predicate
InView(e, y, windowHeight) ==
  isInViewport(BoundingRect(layout[e], y), 1,
               windowHeight, innerWidth)

\* a step in which checkElements runs
CheckStep ==
  \/ ~inThrottle["reveal"] /\ \E y \in RevealScrollPositions : RevealScroll(y)
  \/ RevealResizeCallback

\* C18: every run of checkElements marks the elements that satisfy the
\* visibility predicate, and a marked element stays marked in every step.
C18_RevealOneWay ==
  [][/\ \A e \in RevealEls : revealVisible[e] => revealVisible'[e]
     /\ CheckStep
          => \A e \in RevealEls :
               InView(e, scrollY', innerHeight') => revealVisible'[e]]_vars

\* a marked element that is out of view again
C18_Witness ==
  \E e \in RevealEls :
    /\ revealVisible[e]
    /\ ~InView(e, scrollY, innerHeight)
    /\ scrollY # 0

\* C21: a click on a navigation link suppresses the default jump and leaves
\* the mobile menu closed, whether or not the link's href matches an element.
C21_LinkClickClosesMenu ==
  [][(\E hasTarget \in BOOLEAN : NavLinkClick(hasTarget))
       => /\ defaultPrevented'
          /\ ~menuOpen'
          /\ navToggleExpanded' # "true"]_vars

SubmissionPending == \E k \in 1..Len(timers) : timers[k].kind = "submit"

\* this step starts a simulated submission
SubmissionStarted ==
  timers' = Append(timers, simulateFormSubmission(formData))

SomeFieldEmpty ==
  \/ formData.name = ""
  \/ formData.email = <<>>
  \/ formData.subject = ""
  \/ formData.message = ""

ErrorShown ==
  messageText = ValidationMessage /\ messageClass = <<"form-message", "error">>

SuccessShown ==
  messageText = SuccessMessage /\ messageClass = <<"form-message", "success">>

\* C23: a submit with an empty field or with an e-mail value that does not
\* match the pattern shows the validation error and does nothing else: no
\* simulated submission starts, the controls keep their values, and the only
\* callback registered is the fade of the error message.
C23_InvalidSubmitOnlyShowsError ==
  [][(Submit /\ (SomeFieldEmpty \/ ~emailRegexTest(formData.email)))
       => /\ ErrorShown'
          /\ formData' = formData
          /\ messageOpacity' = messageOpacity
          /\ timers' = Append(timers, [kind |-> "fade", arg |-> 0,
                                       left |-> FadeDelay])]_vars

\* a form with all fields filled and the e-mail 'a@b' was submitted and
\* rejected
C23_Witness ==
  /\ defaultPrevented
  /\ ErrorShown
  /\ formData = [name |-> "Ann", email |-> <<"a", "@", "b">>,
                 subject |-> "Hi", message |-> "Hello"]
  /\ ~SubmissionPending

NoWhitespace(s) == \A k \in 1..Len(s) : ~IsSpace(s[k])

\* some '.' after position i with text on each side of it
DotAfter(s, i) ==
  \E j \in 1..Len(s) : s[j] = "." /\ i + 1 < j /\ j < Len(s)

OtherFieldsFilled ==
  formData.name # "" /\ formData.subject # "" /\ formData.message # ""

\* C24, as stated: next to three filled fields an e-mail value is accepted
\* exactly when it has no whitespace and at least one '@' followed by a '.'
\* that has text on each side.
C24_AcceptsAnyAt ==
  [][(Submit /\ OtherFieldsFilled)
       => (SubmissionStarted
             <=> /\ NoWhitespace(formData.email)
                 /\ \E i \in 1..Len(formData.email) :
                      /\ formData.email[i] = "@"
                      /\ DotAfter(formData.email, i))]_vars

\* C24, amended: next to three filled fields an e-mail value is accepted
\* exactly when it has no whitespace, exactly one '@' with text before it,
\* and a '.' after the '@' that has text on each side; 'a@b.co' is accepted,
\* 'a@b', 'a b@c.d' and '' are rejected.
C24_AcceptsOneAt ==
  [][(Submit /\ OtherFieldsFilled)
       => /\ SubmissionStarted
               <=> /\ NoWhitespace(formData.email)
                   /\ \E i \in 2..Len(formData.email) :
                        /\ formData.email[i] = "@"
                        /\ \A k \in 1..Len(formData.email) :
                             formData.email[k] = "@" => k = i
                        /\ DotAfter(formData.email, i)
          /\ formData.email = <<"a", "@", "b", ".", "c", "o">>
               => SubmissionStarted
          /\ formData.email \in { <<"a", "@", "b">>, <<>>,
                                  <<"a", " ", "b", "@", "c", ".", "d">> }
               => ~SubmissionStarted]_vars

\* 'a@b.co' was submitted next to three filled fields and accepted
C24_Witness ==
  /\ defaultPrevented
  /\ OtherFieldsFilled
  /\ formData.email = <<"a", "@", "b", ".", "c", "o">>
  /\ SubmissionPending
  /\ messageText = ""

\* C25: every submit of four filled fields with a matching e-mail value is
\* followed, once its delay has passed, by the success message being shown
\* and the controls being reset.
C25_ValidSubmitSucceeds ==
  /\ [][SubmitCallback => (SuccessShown /\ formData = EmptyForm)']_vars
  /\ SubmissionPending ~> (SuccessShown /\ formData = EmptyForm)

\* the success message has just been shown: its fade is a whole delay away
C25_Witness ==
  /\ SuccessShown
  /\ formData = EmptyForm
  /\ timers # <<>>
  /\ timers[Len(timers)] = [kind |-> "fade", arg |-> 0, left |-> FadeDelay]

\* C26: a message stays displayed with its type class until five seconds
\* after the showMessage call that showed it: while the fade registered by
\* the latest call is not yet due, the message element carries a type class
\* and is not faded out.
C26_MessageStaysFiveSeconds ==
  \A k \in 1..Len(timers) :
    (/\ timers[k].kind = "fade"
     /\ timers[k].left > 0
     /\ \A j \in (k + 1)..Len(timers) : timers[j].kind # "fade")
      => Len(messageClass) = 2 /\ messageOpacity # "0"

DarkToggleStep == \E inNav \in BOOLEAN : DarkToggleClick(inNav)

\* C29: the stored preference is absent, 'enabled' or 'disabled'; only a
\* click on the toggle creates it and nothing removes it; whenever it is
\* present, body carries dark-mode exactly if it is 'enabled'.
C29_StoredModeMatchesBody ==
  /\ [](/\ storedMode \in {"", "enabled", "disabled"}
        /\ storedMode # "" => (bodyDark <=> storedMode = "enabled"))
  /\ [][/\ storedMode # "" => storedMode' # ""
        /\ (storedMode = "" /\ storedMode' # "") => DarkToggleStep]_vars

\* the toggle switched dark mode off while the system prefers dark
C29_Witness ==
  /\ "DarkMode" \in bodyWriters
  /\ storedMode = "disabled"
  /\ ~bodyDark
  /\ systemDark

DarkStep == DarkToggleStep \/ \E matches \in BOOLEAN : SystemChange(matches)

ModalStep ==
  \/ \E c \in ProjectCards, onLink \in BOOLEAN : CardClick(c, onLink)
  \/ CloseClick
  \/ FocusCallback

C27_AbsentElementNeverThrows == "localStorage" \in present => threw = ""

\* C28: when the constructor of one component fails during the boot, every
\* other component is still constructed, smooth scrolling is set up and body
\* carries 'loaded'.
C28_BootSurvivesFailure ==
  constructed # <<>>
    => /\ \A k \in 1..Len(BootOrder) :
            IsConstructed(BootOrder[k])
              \/ ConstructorThrows(BootOrder[k], present)
       /\ smoothScrolling
       /\ bodyLoaded

\* C31: with the form and the message element on the page, no sequence of
\* submit events shows the 'something went wrong' message; an error that is
\* shown is the validation error.
C31_FailureBranchUnreachable ==
  /\ messageText # FailureMessage
  /\ messageClass = <<"form-message", "error">>
       => messageText = ValidationMessage

\* a submission was settled, and its success message has faded and been
\* cleared
C31_Witness ==
  /\ messageText = SuccessMessage
  /\ messageClass = <<"form-message">>
  /\ messageOpacity = "1"
  /\ timers = <<>>

\* the submissions that wait for their delay
PendingSubmissions == {k \in 1..Len(timers) : timers[k].kind = "submit"}

\* C38: a valid submit starts a submission of its own also while an earlier
\* one is pending; every pending submission ends in one step that shows the
\* success message and resets the form, whatever the controls hold by then,
\* and that step ends no other submission.
C38_SubmissionsIndependent ==
  [][/\ (Submit /\ validateForm(formData))
          => /\ SubmissionStarted
             /\ Cardinality(PendingSubmissions')
                  = Cardinality(PendingSubmissions) + 1
     /\ SubmitCallback
          => /\ SuccessShown' /\ formData' = EmptyForm
             /\ Cardinality(PendingSubmissions')
                  = Cardinality(PendingSubmissions) - 1
             /\ Len(timers') = Len(timers)
     /\ Cardinality(PendingSubmissions') < Cardinality(PendingSubmissions)
          => SubmitCallback]_vars

\* a submission is due while the controls hold what the user typed after it
\* was made, and a second submission is pending
C38_Witness ==
  /\ Cardinality(PendingSubmissions) = 2
  /\ timers[1].left = 0
  /\ formData # EmptyForm
  /\ formData # timers[1].arg.data

SystemChangeStep == \E matches \in BOOLEAN : SystemChange(matches)

\* C33: a change of the system colour scheme sets body's dark-mode marker
\* to the new system value while no preference is stored, and stores
\* nothing; once a preference is stored, a system change leaves the marker
\* and the stored value as they are.
C33_SystemChangeOnlyUnstored ==
  [][SystemChangeStep
       => IF storedMode = ""
          THEN bodyDark' = systemDark' /\ storedMode' = ""
          ELSE UNCHANGED <<bodyDark, storedMode>>]_vars

\* the system went dark after a toggle had stored 'disabled': body stays
\* light
C33_Witness ==
  /\ storedMode = "disabled"
  /\ ~bodyDark
  /\ systemDark
  /\ bodyWriters = {"DarkMode"}
  /\ ~menuOpen

ResizePending == \E k \in 1..Len(timers) : timers[k].kind = "resize"

ExpandClickStep == \E c \in Cards : ExpandClick(c)

\* C32: initially and whenever no debounced resize callback is pending, the
\* remembered mode is the mode of the viewport width (narrow means at most
\* 768), and an expand activation is then handled in the remembered mode.
C32_RememberedModeIsCurrent ==
  /\ [](~ResizePending => (wasMobile <=> innerWidth <= mobileBreakpoint))
  /\ [][(ExpandClickStep /\ ~ResizePending)
          => IF wasMobile THEN isExpanded' = isExpanded
             ELSE isExpanded' = ~isExpanded]_vars

\* the cards were expanded together at a wide width, and the debounced
\* callback has run at a narrow width it remembered already
C32_Witness ==
  /\ timers = <<>>
  /\ wasMobile
  /\ innerWidth <= mobileBreakpoint
  /\ isExpanded

\* C34: every card's aria-expanded is 'true' exactly if its details carry
\* is-expanded, after any expand activations in either mode and any resizes
\* (the cards start collapsed with aria-expanded 'false').
C34_AriaMirrorsDetails ==
  \A c \in Cards : ariaExpanded[c] = "true" <=> detailsExpanded[c]

\* one card is expanded and another collapsed, at a wide width
C34_Witness ==
  /\ innerWidth > mobileBreakpoint
  /\ \E c, d \in Cards :
       /\ detailsExpanded[c] /\ ariaExpanded[c] = "true"
       /\ ~detailsExpanded[d] /\ ariaExpanded[d] = "false"

\* C35: whenever the viewport is wide and no debounced resize callback is
\* pending, every card's details are expanded exactly if the shared flag
\* says so.
C35_WideCardsFollowFlag ==
  (innerWidth > mobileBreakpoint /\ ~ResizePending)
    => \A c \in Cards : detailsExpanded[c] <=> isExpanded

ResizeStep == \E w \in Widths : Resize(w)

ResizeTimers == SelectSeq(timers, LAMBDA t : t.kind = "resize")

\* C40: at most one callback of the debounced resize listener is pending;
\* a call runs nothing and leaves one callback pending, the full wait away
\* and with the arguments of that call; the wrapped function runs only in
\* the callback, when the wait since the last call is over and with that
\* call's arguments, and nothing of the burst is pending after it; unless
\* calls keep coming, the pending callback runs.
C40_DebounceRunsLastCallOnce ==
  /\ [](Len(ResizeTimers) <= 1)
  /\ [][/\ ResizeStep
           => /\ ResizeTimers'
                  = <<[kind |-> "resize", arg |-> innerWidth',
                       left |-> ResizeWait]>>
              /\ UNCHANGED <<isExpanded, wasMobile, detailsExpanded,
                             ariaExpanded>>
        /\ ResizeCallback
           => /\ ResizeTimers
                  = <<[kind |-> "resize", arg |-> innerWidth, left |-> 0]>>
              /\ ResizeTimers' = <<>>
        /\ wasMobile' # wasMobile => ResizeCallback]_vars
  /\ ([]<>(~ResizePending) \/ []<><<ResizeStep>>_vars)

\* a burst of calls crossed the breakpoint twice and its callback, run with
\* the last call's width, found the remembered mode unchanged
C40_Witness ==
  /\ timers = <<>>
  /\ ~wasMobile
  /\ \E c, d \in Cards : detailsExpanded[c] /\ ~detailsExpanded[d]

\* C36: at most one focus-trap keydown listener is registered on document
\* at any time, over any sequence of opens and dismissals.
C36_OneTrapListener == trapListeners <= 1

\* C37: the delayed callback of openModal moves the focus to the close
\* control only if the dialog is still open when it runs; when the dialog
\* was closed meanwhile, the focus stays where it is.
C37_FocusOnlyWhileOpen ==
  [][(FocusCallback /\ ~modalOpen) => activeElement' = activeElement]_vars

NavScrollStep == \E y \in NavScrollPositions : NavScroll(y)

ThrottleTimers == SelectSeq(timers, LAMBDA t : t.kind = "throttle")

\* C39: the throttled scroll listener of the navigation runs the wrapped
\* function within the call when no window is open, and opens a window of
\* the limit; a call while the window is open is dropped for good; the
\* window's timer only closes the window.  So the wrapped function runs at
\* most once per window, and a burst's last call may stay unexecuted.
C39_ThrottleDropsCallsInWindow ==
  /\ [](/\ Len(ThrottleTimers) <= 1
        /\ inThrottle["nav"] <=> ThrottleTimers # <<>>)
  /\ [][/\ (NavScrollStep /\ ~inThrottle["nav"])
           => /\ navScrolled' = (scrollY' > ScrolledOffset)
              /\ inThrottle'["nav"]
              /\ ThrottleTimers'
                  = <<[kind |-> "throttle", arg |-> "nav",
                       left |-> ThrottleLimit]>>
        /\ (NavScrollStep /\ inThrottle["nav"])
           => UNCHANGED <<navScrolled, inThrottle, timers>>
        /\ ThrottleCallback("nav")
           => /\ ThrottleTimers
                  = <<[kind |-> "throttle", arg |-> "nav", left |-> 0]>>
              /\ ~inThrottle'["nav"]
              /\ UNCHANGED navScrolled
        /\ navScrolled' # navScrolled
           => NavScrollStep /\ ~inThrottle["nav"]]_vars

\* the window has expired and the last call of the burst, which scrolled
\* past the offset, was never executed
C39_Witness ==
  /\ timers = <<>>
  /\ ~inThrottle["nav"]
  /\ scrollY > ScrolledOffset
  /\ ~navScrolled
  /\ ~menuOpen
====
